---- MODULE Spec2Model ----
(***************************************************************************)
(* Model of torchrl/collectors/collectors.py.                              *)
(*                                                                         *)
(*   SpecEngine : one SyncDataCollector (rollout, _reset_if_necessary,     *)
(*                reset) driven over a batched environment.                *)
(*   SpecAsync  : MultiaSyncDataCollector.iterator, the consumer calls     *)
(*                made between yields, and N _main_async_collector loops.  *)
(*   SpecSync   : MultiSyncDataCollector.iterator and N worker loops.      *)
(***************************************************************************)
EXTENDS Integers, Sequences, FiniteSets, TLC

(***************************************************************************)
(* Bounds of the model.                                                    *)
(***************************************************************************)
NLanes == 2
NumWorkers == 2
MaxWorkerRollouts == 4
MaxConsumerCalls == 1
MaxRollouts == 2
MaxResets == 1
MaxShutdownCalls == 2
MaxLoads == 1
MaxFaults == 1

(***************************************************************************)
(* Configurations of the engine explored by SpecEngine.                    *)
(***************************************************************************)
\* the frames_per_batch argument of SyncDataCollector
FramesPerBatchArgSet == {3}
MaxFramesPerTrajSet == {-1, 2, 3}
\* the total_frames argument of SyncDataCollector (not > 0: no limit)
DcTotalFramesSet == {-1, 6}

\* the init_random_frames argument of SyncDataCollector, for SpecRandom
DcInitRandomFramesSet == {1, 5}

\* Configurations of the multi-worker collectors.
TotalFramesSet == {5}
InitRandomFramesSet == {3}
SeedSet == {7}
\* what env.set_seed(seed) returns minus seed (0: one environment)
SeedSpanSet == {0, 1}
\* frames of one worker's block (out.numel())
BlockFrames == 2
\* MultiaSyncDataCollector._queue_len
AsyncQueueLen == 1

Lanes == 1..NLanes
Workers == 1..NumWorkers
NoId == -1

VARIABLES
  \* ---- SyncDataCollector (engine) ----
  epc,              \* position: "idle" | "step" | "bookkeep" | "error"
  cfg,              \* [frames_per_batch, max_frames_per_traj, reset_at_each_iter, init_with_lag]
  t,                \* loop index of rollout
  ncalls,           \* rollout() calls started
  nresets,          \* reset() calls made
  step_count,       \* _tensordict["step_count"], per lane
  traj_ids,         \* _tensordict["traj_ids"], per lane (NoId: key not set yet)
  done,             \* _tensordict["done"], per lane
  has_been_done,    \* _has_been_done: <<>> for None, else <<mask>>
  tensordict_out,   \* the snapshots appended in the current rollout
  dc_frames,        \* self._frames of the engine's iterator
  dc_closed,        \* self.closed of the engine
  env_closed,       \* env.is_closed
  saved,            \* the dictionary returned by state_dict(): <<>> or <<keys>>
  nloads,           \* load_state_dict() calls made
  dc_nshut,         \* shutdown() calls made on the engine
  yielded,          \* blocks yielded by the engine's iterator
  \* ---- history of the environment (not program state) ----
  epi,              \* per lane: number of environment resets of the lane so far
  since,            \* per lane: environment steps since the lane's last reset
  hist,             \* captured frames: records [lane, epi, id]
  ever_done,        \* the environment has reported done on some step
  term              \* lanes reset by the last bookkeeping step or reset()

VARIABLES
  \* ---- channels (multi-worker collectors) ----
  pipe_in,          \* per worker: messages coordinator -> worker, FIFO
  pipe_out,         \* per worker: replies worker -> coordinator, FIFO
  queue_out,        \* the shared bounded output queue
  qcap,             \* _queue_len
  \* ---- _main_async_collector, per worker ----
  wpc,              \* "poll" | "dispatch" | "postpoll" | "put" | "closed" |
                    \* "timeout_error" | "protocol_error" (the process has raised)
  msg,              \* last message tag received ("none": not bound yet)
  data_in,          \* payload of the last message
  has_timed_out,
  j,                \* sequence number of the next publish
  nroll,            \* rollouts computed so far by the worker's engine
  store,            \* contents of the worker's shared block: the rollout that wrote it
  \* ---- coordinator ----
  cpc,              \* position of the coordinator / consumer
  ret,              \* where a coordinator call returns to
  call,             \* the consumer call in progress
  ck,               \* loop index of the coordinator's current loop
  frames,           \* frames / self._frames
  workers_frames,
  dones,
  out_tensordicts,  \* keys of out_tensordicts(_shared), in insertion order
  cur,              \* the queue entry being processed (<<>>: none)
  running,
  closed,
  ccalls,           \* consumer calls made so far
  total_frames,
  init_random_frames,
  split_trajs,
  disc,             \* "sync" | "async": which collector class this is
  \* ---- what the consumer has seen (not program state) ----
  nyield,           \* blocks yielded
  sumyield,         \* frames of the yielded blocks, summed
  lasty,            \* last yield: <<>> or <<[idx, pub, got]>> (async), <<order>> (sync)
  round,            \* sync: rounds dispatched so far
  \* ---- life cycle, seeding and faults ----
  joined,           \* every worker process has been joined
  seed,             \* the local variable seed of set_seed
  nshut,            \* shutdown() calls made (not program state)
  seed_arg,         \* argument of the set_seed call made (not program state)
  seeds,            \* per worker: <<>> or <<[got, ret]>>, the seed it was sent
                    \* and the seed it returned (not program state)
  nfault,           \* unrecognized messages and replies put on the pipes so far
  \* ---- construction and the merge of a round ----
  margs,            \* arguments of _MultiDataCollector.__init__ (<<>>: not under study)
  blk_ids,          \* per worker: traj_ids of the block it published, frame by frame
  max_traj_idx      \* the local variable max_traj_idx of the sync iterator (<<>>: None)

engVars == <<epc, cfg, t, ncalls, nresets, step_count, traj_ids, done,
             has_been_done, tensordict_out, dc_frames, dc_closed, env_closed,
             saved, nloads, dc_nshut, yielded, epi, since, hist, ever_done, term>>

\* the engine's iterator, life cycle and state dictionary
iterVars == <<dc_frames, dc_closed, env_closed, saved, nloads, dc_nshut, yielded>>

chanVars == <<pipe_in, pipe_out, queue_out, qcap>>
workerVars == <<wpc, msg, data_in, has_timed_out, j, nroll, store>>
coordVars == <<cpc, ret, call, ck, frames, workers_frames, dones, out_tensordicts,
               cur, running, closed, ccalls, total_frames, init_random_frames,
               split_trajs, disc>>
seenVars == <<nyield, sumyield, lasty, round>>
extVars == <<joined, seed, nshut, seed_arg, seeds, nfault>>
mpVars == <<chanVars, workerVars, coordVars, seenVars, extVars>>

auxVars == <<margs, blk_ids, max_traj_idx>>

vars == <<engVars, mpVars, auxVars>>

\* The construction and merge state while neither is under study.
AuxUnused == margs = <<>> /\ blk_ids = <<>> /\ max_traj_idx = <<>>

\* The multi-worker state while only the engine is under study.
MPUnused ==
  /\ pipe_in = [w \in Workers |-> <<>>] /\ pipe_out = [w \in Workers |-> <<>>]
  /\ queue_out = <<>> /\ qcap = 0
  /\ wpc = [w \in Workers |-> "unused"] /\ msg = <<>> /\ data_in = <<>>
  /\ has_timed_out = <<>>
  /\ j = <<>> /\ nroll = <<>> /\ store = <<>>
  /\ cpc = "unused" /\ ret = "unused" /\ call = "none" /\ ck = 0 /\ frames = 0
  /\ workers_frames = <<>> /\ dones = <<>> /\ out_tensordicts = <<>> /\ cur = <<>>
  /\ running = FALSE /\ closed = TRUE /\ ccalls = 0
  /\ total_frames = 0 /\ init_random_frames = 0 /\ split_trajs = FALSE /\ disc = "none"
  /\ nyield = 0 /\ sumyield = 0 /\ lasty = <<>> /\ round = 0
  /\ joined = FALSE /\ seed = 0 /\ nshut = 0 /\ seed_arg = 0 /\ seeds = <<>>
  /\ nfault = 0

\* The engine state while only the worker protocol is under study.
EngineUnused ==
  /\ epc = "unused" /\ cfg = <<>> /\ t = 0 /\ ncalls = 0 /\ nresets = 0
  /\ step_count = <<>> /\ traj_ids = <<>> /\ done = <<>> /\ has_been_done = <<>>
  /\ tensordict_out = <<>> /\ epi = <<>> /\ since = <<>> /\ hist = {} /\ term = {}
  /\ dc_frames = 0 /\ dc_closed = TRUE /\ env_closed = TRUE /\ saved = <<>>
  /\ nloads = 0 /\ dc_nshut = 0 /\ yielded = 0 /\ ever_done = FALSE

(***************************************************************************)
(* Helpers on lane masks.                                                  *)
(***************************************************************************)
MaxOf(S) == CHOOSE x \in S : \A y \in S : y <= x

\* Rank of lane l among the lanes of mask (1-based, lane-index order).
RankIn(mask, l) == Cardinality({k \in mask : k <= l})

(***************************************************************************)
(* SyncDataCollector.__init__: env.reset(), step_count zeroed.             *)
(***************************************************************************)
\* self.frames_per_batch = -(-frames_per_batch // self.n_env) (line 293)
FramesPerBatchFloor(F, n) == F \div n

FramesPerBatch(F, n) == -((-F) \div n)

\* the collector built with init_random_frames drawn from RandomFramesSet and
\* max_frames_per_traj drawn from MaxFramesSet
InitEngineOf(RandomFramesSet, MaxFramesSet) ==
  /\ AuxUnused
  /\ epc = "idle"
  /\ \E c \in [frames_per_batch_arg : FramesPerBatchArgSet,
                max_frames_per_traj : MaxFramesSet,
                total_frames : DcTotalFramesSet,
                init_random_frames : RandomFramesSet,
                reset_at_each_iter : BOOLEAN,
                init_with_lag : BOOLEAN] :
       cfg = [frames_per_batch_arg |-> c.frames_per_batch_arg,
              frames_per_batch |-> FramesPerBatch(c.frames_per_batch_arg, NLanes),
              max_frames_per_traj |-> c.max_frames_per_traj,
              total_frames |-> c.total_frames,
              init_random_frames |-> c.init_random_frames,
              reset_at_each_iter |-> c.reset_at_each_iter,
              init_with_lag |-> c.init_with_lag]
  /\ t = 0
  /\ ncalls = 0
  /\ nresets = 0
  /\ step_count = [l \in Lanes |-> 0]
  /\ traj_ids = [l \in Lanes |-> NoId]
  /\ done = [l \in Lanes |-> FALSE]
  /\ has_been_done = <<>>
  /\ tensordict_out = <<>>
  /\ dc_frames = 0
  /\ dc_closed = FALSE
  /\ env_closed = FALSE
  /\ saved = <<>>
  /\ nloads = 0
  /\ dc_nshut = 0
  /\ yielded = 0
  /\ epi = [l \in Lanes |-> 0]
  /\ since = [l \in Lanes |-> 0]
  /\ hist = {}
  /\ ever_done = FALSE
  /\ term = {}
  /\ MPUnused

\* the collector built with init_random_frames drawn from RandomFramesSet
InitEngineWith(RandomFramesSet) == InitEngineOf(RandomFramesSet, MaxFramesPerTrajSet)

\* init_random_frames = -1, the default (line 240): no random frames
InitEngine == InitEngineWith({-1})

\* self.init_with_lag = init_with_lag and max_frames_per_traj > 0
InitWithLag == cfg.init_with_lag /\ cfg.max_frames_per_traj > 0

(***************************************************************************)
(* rollout(), lines 449-457: optional reset of every lane, then the        *)
(* traj_ids of the live record are set to arange(n).                       *)
(***************************************************************************)
StartTrajIds(ids, calls) == [l \in Lanes |-> l - 1]

\* total_frames not > 0 is float("inf") (lines 284-285); lines 358 and 376
ReachedTotal(fr) == cfg.total_frames > 0 /\ fr >= cfg.total_frames

\* iterator(), line 356: the consumer asks for the next block
RolloutStart ==
  /\ epc = "idle"
  /\ ncalls < MaxRollouts
  /\ ~dc_closed
  /\ ~ReachedTotal(dc_frames)
  /\ ncalls' = ncalls + 1
  /\ IF cfg.reset_at_each_iter
       THEN /\ step_count' = [l \in Lanes |-> 0]
            /\ done' = [l \in Lanes |-> FALSE]
            /\ epi' = [l \in Lanes |-> epi[l] + 1]
            /\ since' = [l \in Lanes |-> 0]
       ELSE UNCHANGED <<step_count, done, epi, since>>
  /\ traj_ids' = StartTrajIds(traj_ids, ncalls)
  /\ tensordict_out' = <<>>
  /\ t' = 0
  /\ epc' = "step"
  /\ UNCHANGED <<cfg, nresets, has_been_done, hist, ever_done, term, iterVars>>
  /\ UNCHANGED <<mpVars, auxVars>>

(***************************************************************************)
(* rollout(), lines 459-470: one environment step of every lane, then      *)
(* step_count += 1 and the snapshot is appended.                           *)
(***************************************************************************)
IncrSteps(sc) == [l \in Lanes |-> sc[l] + 1]

\* line 460: if self._frames < self.init_random_frames: env.rand_step
RandomStep(fr) == fr < cfg.init_random_frames

EnvStep ==
  /\ epc = "step"
  /\ t < cfg.frames_per_batch
  /\ \E d \in [Lanes -> BOOLEAN] :
       /\ done' = d
       /\ step_count' = IncrSteps(step_count)
       /\ since' = [l \in Lanes |-> since[l] + 1]
       /\ tensordict_out' = Append(tensordict_out,
            [l \in Lanes |-> [traj_id |-> traj_ids[l],
                              step_count |-> step_count'[l],
                              done |-> d[l],
                              random |-> RandomStep(dc_frames),
                              epi |-> epi[l],
                              since |-> since'[l]]])
       /\ hist' = hist \cup {[lane |-> l, epi |-> epi[l], id |-> traj_ids[l]] : l \in Lanes}
       /\ ever_done' = (ever_done \/ \E l \in Lanes : d[l])
  /\ epc' = "bookkeep"
  /\ UNCHANGED <<cfg, t, ncalls, nresets, traj_ids, has_been_done, epi, term, iterVars>>
  /\ UNCHANGED <<mpVars, auxVars>>

(***************************************************************************)
(* _reset_if_necessary(), lines 404-439.                                   *)
(***************************************************************************)
\* only done ends a trajectory
DoneOrTerminatedDoneOnly(d, sc) == {l \in Lanes : d[l]}

DoneOrTerminated(d, sc) ==
  {l \in Lanes : d[l] \/ sc[l] = cfg.max_frames_per_traj}

\* the flags of the earlier steps are forgotten
NewHasBeenDoneForgets(dot) == dot

NewHasBeenDone(dot) ==
  IF has_been_done = <<>> THEN dot ELSE has_been_done[1] \cup dot

\* the lanes that are reset keep their traj_ids
BumpTrajIdsKeep(ids, mask) == ids

\* every lane that is reset gets max + 1
BumpTrajIdsSame(ids, mask) ==
  [l \in Lanes |-> IF l \in mask THEN MaxOf({ids[k] : k \in Lanes}) + 1 ELSE ids[l]]

\* traj_ids[mask] = traj_ids.max() + arange(1, mask.sum() + 1)
BumpTrajIds(ids, mask) ==
  [l \in Lanes |-> IF l \in mask
                     THEN MaxOf({ids[k] : k \in Lanes}) + RankIn(mask, l)
                     ELSE ids[l]]

ZeroStepsOffByOne(sc, mask) == [l \in Lanes |-> IF l \in mask THEN 1 ELSE sc[l]]

ZeroSteps(sc, mask) == [l \in Lanes |-> IF l \in mask THEN 0 ELSE sc[l]]

Bookkeep ==
  /\ epc = "bookkeep"
  /\ LET dot0 == DoneOrTerminated(done, step_count)
         hbd  == NewHasBeenDone(dot0)
     IN
     /\ has_been_done' = <<hbd>>
     /\ \E lag \in SUBSET Lanes, bad \in BOOLEAN :
          \* the bernoulli draw, masked by _has_been_done
          /\ IF hbd # Lanes /\ InitWithLag
               THEN lag \cap hbd = {}
               ELSE lag = {}
          /\ LET dot == dot0 \cup lag IN
             IF dot = {}
               THEN /\ bad = FALSE
                    /\ term' = {}
                    /\ t' = t + 1
                    /\ epc' = IF t + 1 < cfg.frames_per_batch THEN "step" ELSE "yield"
                    /\ UNCHANGED <<step_count, traj_ids, done, epi, since>>
               ELSE /\ epi' = [l \in Lanes |-> IF l \in dot THEN epi[l] + 1 ELSE epi[l]]
                    /\ since' = [l \in Lanes |-> IF l \in dot THEN 0 ELSE since[l]]
                    /\ term' = dot
                    /\ IF bad
                         \* "Got ... done envs after reset": raised after masked_fill_
                         THEN /\ epc' = "error"
                              /\ done' = [l \in Lanes |-> l \in dot]
                              /\ step_count' = ZeroSteps(step_count, dot)
                              /\ traj_ids' = [l \in Lanes |-> IF l \in dot THEN 0 ELSE traj_ids[l]]
                              /\ t' = t
                         ELSE /\ done' = [l \in Lanes |-> FALSE]
                              /\ traj_ids' = BumpTrajIds(traj_ids, dot)
                              /\ step_count' = ZeroSteps(step_count, dot)
                              /\ t' = t + 1
                              /\ epc' = IF t + 1 < cfg.frames_per_batch THEN "step" ELSE "yield"
  /\ UNCHANGED <<cfg, ncalls, nresets, tensordict_out, hist, ever_done, iterVars>>
  /\ UNCHANGED <<mpVars, auxVars>>

(***************************************************************************)
(* SyncDataCollector.reset(index=None), lines 484-508: the whole record is *)
(* zeroed, every lane is reset and step_count is filled with 0.            *)
(***************************************************************************)
EngineReset ==
  /\ epc = "idle"
  /\ nresets < MaxResets
  /\ ~dc_closed
  /\ nresets' = nresets + 1
  /\ step_count' = [l \in Lanes |-> 0]
  /\ traj_ids' = [l \in Lanes |-> IF traj_ids[l] = NoId THEN NoId ELSE 0]
  /\ done' = [l \in Lanes |-> FALSE]
  /\ epi' = [l \in Lanes |-> epi[l] + 1]
  /\ since' = [l \in Lanes |-> 0]
  /\ term' = Lanes
  /\ UNCHANGED <<epc, cfg, t, ncalls, has_been_done, tensordict_out, hist, ever_done, iterVars>>
  /\ UNCHANGED <<mpVars, auxVars>>

\* the variables of the rollout, which the calls below leave alone
rolloutVars == <<cfg, t, ncalls, nresets, step_count, traj_ids, done, has_been_done,
                 tensordict_out, epi, since, hist, ever_done, term>>

(***************************************************************************)
(* SyncDataCollector.iterator, lines 357-377: the block is counted, the     *)
(* environment is closed once the target is reached, the block is yielded;  *)
(* when the consumer asks again after the target is reached, the loop ends. *)
(***************************************************************************)
IteratorYield ==
  /\ epc = "yield"
  /\ dc_frames' = dc_frames + NLanes * Len(tensordict_out)
  /\ env_closed' = (env_closed \/ ReachedTotal(dc_frames'))
  /\ yielded' = yielded + 1
  /\ epc' = "idle"
  /\ UNCHANGED <<rolloutVars, dc_closed, saved, nloads, dc_nshut>>
  /\ UNCHANGED <<mpVars, auxVars>>

IteratorStop ==
  /\ epc = "idle"
  /\ yielded > 0
  /\ ReachedTotal(dc_frames)
  /\ epc' = "exhausted"
  /\ UNCHANGED <<rolloutVars, iterVars>>
  /\ UNCHANGED <<mpVars, auxVars>>

(***************************************************************************)
(* SyncDataCollector.shutdown, lines 510-517.                              *)
(***************************************************************************)
EngineShutdown ==
  /\ epc \in {"idle", "exhausted", "error", "load_error"}
  /\ dc_nshut < MaxShutdownCalls
  /\ dc_nshut' = dc_nshut + 1
  /\ IF ~dc_closed
       THEN dc_closed' = TRUE /\ env_closed' = TRUE
       ELSE UNCHANGED <<dc_closed, env_closed>>
  /\ UNCHANGED <<epc, rolloutVars, dc_frames, saved, nloads, yielded>>
  /\ UNCHANGED <<mpVars, auxVars>>

(***************************************************************************)
(* SyncDataCollector.state_dict and load_state_dict, lines 522-562.        *)
(***************************************************************************)
\* lines 539-546: policy_state_dict is a key only if the policy has a state_dict
StateDictKeys(has_state_dict) ==
  IF has_state_dict THEN {"policy_state_dict", "env_state_dict"}
                    ELSE {"env_state_dict"}

\* has_state_dict is hasattr(self.policy, "state_dict")
EngineStateDict ==
  /\ epc = "idle"
  /\ ~dc_closed
  /\ saved = <<>>
  /\ \E has_state_dict \in BOOLEAN : saved' = <<StateDictKeys(has_state_dict)>>
  /\ UNCHANGED <<epc, rolloutVars, dc_frames, dc_closed, env_closed, nloads, dc_nshut, yielded>>
  /\ UNCHANGED <<mpVars, auxVars>>

\* lines 558-562: each entry is looked up when strict, or when it is a key
LoadRaises(keys, strict) ==
  \E key \in {"env_state_dict", "policy_state_dict"} :
    (strict \/ key \in keys) /\ key \notin keys

\* load_state_dict(state_dict, strict=...) with the dictionary state_dict() returned
EngineLoadStateDict ==
  /\ epc = "idle"
  /\ ~dc_closed
  /\ saved # <<>>
  /\ nloads < MaxLoads
  /\ nloads' = nloads + 1
  /\ \E strict \in BOOLEAN :
       epc' = IF LoadRaises(saved[1], strict) THEN "load_error" ELSE "idle"
  /\ UNCHANGED <<rolloutVars, dc_frames, dc_closed, env_closed, saved, dc_nshut, yielded>>
  /\ UNCHANGED <<mpVars, auxVars>>

NextEngine ==
  \/ RolloutStart \/ EnvStep \/ Bookkeep \/ EngineReset
  \/ IteratorYield \/ IteratorStop \/ EngineShutdown
  \/ EngineStateDict \/ EngineLoadStateDict

SpecEngine == InitEngine /\ [][NextEngine]_vars

(***************************************************************************)
(* The engine with a budget of random frames: the iterator and the rollout *)
(* of a collector without max_frames_per_traj, lag or reset at each block. *)
(***************************************************************************)
InitRandom ==
  /\ InitEngineWith(DcInitRandomFramesSet)
  /\ cfg.max_frames_per_traj = -1
  /\ ~cfg.reset_at_each_iter
  /\ ~cfg.init_with_lag

NextRandom ==
  \/ RolloutStart \/ EnvStep \/ Bookkeep \/ IteratorYield \/ IteratorStop

SpecRandom == InitRandom /\ [][NextRandom]_vars

(***************************************************************************)
(* Multi-worker collectors: channels and messages.                         *)
(***************************************************************************)
Msg(tag, data) == [tag |-> tag, data |-> data]

ContinueTags == {"continue", "continue_random"}

\* the directive sent is an update
ContinueTagUpdate(fr) == "update"

\* frames < init_random_frames selects "continue_random" (lines 937, 1047, 1077)
ContinueTag(fr) ==
  IF fr < init_random_frames THEN "continue_random" ELSE "continue"

SendAll(tag, data) ==
  [w \in Workers |-> Append(pipe_in[w], Msg(tag, data))]

(***************************************************************************)
(* _MultiDataCollector.__init__ / _run_processes: N worker processes, one  *)
(* pipe per worker, one queue of _queue_len slots.                         *)
(***************************************************************************)
InitMulti(discipline, queue_len) ==
  /\ EngineUnused
  /\ AuxUnused
  /\ disc = discipline
  /\ qcap = queue_len
  /\ pipe_in = [w \in Workers |-> <<>>]
  /\ pipe_out = [w \in Workers |-> <<>>]
  /\ queue_out = <<>>
  /\ wpc = [w \in Workers |-> "poll"]
  /\ msg = [w \in Workers |-> "none"]
  /\ data_in = [w \in Workers |-> 0]
  /\ has_timed_out = [w \in Workers |-> FALSE]
  /\ j = [w \in Workers |-> 0]
  /\ nroll = [w \in Workers |-> 0]
  /\ store = [w \in Workers |-> 0]
  /\ cpc = "init"
  /\ ret = "init"
  /\ call = "none"
  /\ ck = 0
  /\ frames = 0
  /\ workers_frames = [w \in Workers |-> 0]
  /\ dones = [w \in Workers |-> FALSE]
  /\ out_tensordicts = <<>>
  /\ cur = <<>>
  /\ running = FALSE
  /\ closed = FALSE
  /\ ccalls = 0
  /\ total_frames \in TotalFramesSet
  /\ init_random_frames \in InitRandomFramesSet
  /\ split_trajs \in BOOLEAN
  /\ nyield = 0
  /\ sumyield = 0
  /\ lasty = <<>>
  /\ round = 0
  /\ joined = FALSE
  /\ seed = 0
  /\ nshut = 0
  /\ seed_arg = 0
  /\ seeds = [w \in Workers |-> <<>>]
  /\ nfault = 0

(***************************************************************************)
(* _main_async_collector, lines 1229-1331: the loop of one worker.         *)
(***************************************************************************)

\* a poll that times out runs the last message again
PollTimeoutRedo(hto, m) == "dispatch"

\* lines 1236-1246: the poll timed out with no message
PollTimeout(hto, m) ==
  IF hto
    THEN IF m \notin ContinueTags THEN "timeout_error" ELSE "dispatch"
    ELSE "poll"

\* lines 1231-1246: poll the pipe, receive the message if there is one
WorkerPoll(w) ==
  /\ wpc[w] = "poll"
  /\ IF pipe_in[w] # <<>>
       THEN /\ msg' = [msg EXCEPT ![w] = Head(pipe_in[w]).tag]
            /\ data_in' = [data_in EXCEPT ![w] = Head(pipe_in[w]).data]
            /\ pipe_in' = [pipe_in EXCEPT ![w] = Tail(@)]
            /\ wpc' = [wpc EXCEPT ![w] = "dispatch"]
       ELSE /\ wpc' = [wpc EXCEPT ![w] = PollTimeout(has_timed_out[w], msg[w])]
            /\ UNCHANGED <<msg, data_in, pipe_in>>
  /\ UNCHANGED <<pipe_out, queue_out, qcap, has_timed_out, j, nroll, store>>
  /\ UNCHANGED <<coordVars, seenVars, engVars, auxVars, extVars>>

\* lines 1247-1253: d = next(dc_iter); the engine refreshes the block in place
WorkerCollect(w) ==
  /\ wpc[w] = "dispatch"
  /\ msg[w] \in ContinueTags
  /\ nroll[w] < MaxWorkerRollouts
  /\ nroll' = [nroll EXCEPT ![w] = @ + 1]
  /\ store' = [store EXCEPT ![w] = nroll[w] + 1]
  /\ wpc' = [wpc EXCEPT ![w] = "postpoll"]
  /\ UNCHANGED <<chanVars, msg, data_in, has_timed_out, j>>
  /\ UNCHANGED <<coordVars, seenVars, engVars, auxVars, extVars>>

\* the block is published whatever is pending
AfterCollectPublishes(pending) == "put"

\* lines 1254-1258: a message that arrived meanwhile supersedes the block
AfterCollect(pending) == IF pending THEN "poll" ELSE "put"

WorkerPostPoll(w) ==
  /\ wpc[w] = "postpoll"
  /\ wpc' = [wpc EXCEPT ![w] = AfterCollect(pipe_in[w] # <<>>)]
  /\ UNCHANGED <<chanVars, msg, data_in, has_timed_out, j, nroll, store>>
  /\ UNCHANGED <<coordVars, seenVars, engVars, auxVars, extVars>>

\* every entry carries the worker index only
PutDataAlwaysIdx(jw) == "idx"

\* lines 1259-1272: data = (tensordict, idx) if j == 0, else data = idx
PutData(jw) == IF jw = 0 THEN "block" ELSE "idx"

\* lines 1259-1284: publish (data, j); queue.Full after _TIMEOUT sets has_timed_out.
\* pub records the contents of the shared block at the time of the publish.
WorkerPut(w) ==
  /\ wpc[w] = "put"
  /\ IF Len(queue_out) < qcap
       THEN /\ queue_out' = Append(queue_out, [idx |-> w, j |-> j[w], pub |-> store[w],
                                               data |-> PutData(j[w])])
            /\ j' = [j EXCEPT ![w] = @ + 1]
            /\ has_timed_out' = [has_timed_out EXCEPT ![w] = FALSE]
       ELSE /\ has_timed_out' = [has_timed_out EXCEPT ![w] = TRUE]
            /\ UNCHANGED <<queue_out, j>>
  /\ wpc' = [wpc EXCEPT ![w] = "poll"]
  /\ UNCHANGED <<pipe_in, pipe_out, qcap, msg, data_in, nroll, store>>
  /\ UNCHANGED <<coordVars, seenVars, engVars, auxVars, extVars>>

\* close is acknowledged like an update
ReplyTagCloseUpdated(m) ==
  CASE m = "update" -> "updated"
    [] m = "seed" -> "seeded"
    [] m = "reset" -> "reset"
    [] m = "state_dict" -> "state_dict"
    [] m = "load_state_dict" -> "loaded"
    [] m = "close" -> "updated"
    [] OTHER -> "none"

\* an unrecognized message is acknowledged like an update
ReplyTagLenient(m) ==
  CASE m = "seed" -> "seeded"
    [] m = "reset" -> "reset"
    [] m = "state_dict" -> "state_dict"
    [] m = "load_state_dict" -> "loaded"
    [] m = "close" -> "closed"
    [] OTHER -> "updated"

\* lines 1287-1331: the reply of each control message
ReplyTag(m) ==
  CASE m = "update" -> "updated"
    [] m = "seed" -> "seeded"
    [] m = "reset" -> "reset"
    [] m = "state_dict" -> "state_dict"
    [] m = "load_state_dict" -> "loaded"
    [] m = "close" -> "closed"
    [] OTHER -> "none"

\* the branches that end with has_timed_out = False
ClearsTimeout(m) == m \in {"update", "seed", "state_dict", "load_state_dict"}

\* line 1294: new_seed = dc.set_seed(data_in), the seed of the last environment
EnvSetSeed(s, span) == s + span

WorkerHandle(w) ==
  /\ wpc[w] = "dispatch"
  /\ msg[w] \notin ContinueTags
  /\ IF ReplyTag(msg[w]) = "none"
       \* "Unrecognized message"
       THEN /\ wpc' = [wpc EXCEPT ![w] = "protocol_error"]
            /\ UNCHANGED <<pipe_out, has_timed_out, seeds>>
       ELSE /\ \E span \in (IF msg[w] = "seed" THEN SeedSpanSet ELSE {0}) :
                 LET reply == IF msg[w] = "seed" THEN EnvSetSeed(data_in[w], span) ELSE j[w] IN
                 /\ pipe_out' = [pipe_out EXCEPT ![w] = Append(@, Msg(ReplyTag(msg[w]), reply))]
                 /\ seeds' = IF msg[w] = "seed"
                               THEN [seeds EXCEPT ![w] = <<[got |-> data_in[w], ret |-> reply]>>]
                               ELSE seeds
            /\ has_timed_out' = [has_timed_out EXCEPT ![w] =
                 IF ClearsTimeout(msg[w]) THEN FALSE ELSE @]
            /\ wpc' = [wpc EXCEPT ![w] = IF msg[w] = "close" THEN "closed" ELSE "poll"]
  /\ UNCHANGED <<pipe_in, queue_out, qcap, msg, data_in, j, nroll, store>>
  /\ UNCHANGED <<coordVars, seenVars, engVars, auxVars, joined, seed, nshut, seed_arg, nfault>>

(***************************************************************************)
(* Coordinator operations shared by both disciplines.                      *)
(***************************************************************************)
Cached(cache, w) == \E i \in DOMAIN cache : cache[i] = w

\* _get_from_queue / lines 946-951: the first entry of a worker carries its block
CacheBlock(cache, e) ==
  IF e.j = 0 /\ ~Cached(cache, e.idx)
    THEN Append(cache, e.idx)
    ELSE cache

\* a worker process that has raised out of its loop
Dead(w) == wpc[w] \in {"timeout_error", "protocol_error"}

FirstDead ==
  IF \E w \in Workers : Dead(w)
    THEN CHOOSE w \in Workers : Dead(w) /\ \A v \in Workers : Dead(v) => w <= v
    ELSE NumWorkers + 1

\* close is sent whether or not the collector is closed already
ShutdownSendAlways(back) ==
  /\ closed' = TRUE
  /\ pipe_in' = SendAll("close", 0)
  /\ ck' = 1
  /\ ret' = back
  /\ cpc' = "sd_recv"

\* _shutdown_main, lines 801-806: close is sent to every worker. The send to a
\* worker that has terminated either raises BrokenPipeError (broken) or is lost.
ShutdownSend(back) ==
  IF closed
    THEN /\ cpc' = back
         /\ UNCHANGED <<pipe_in, closed, ck, ret>>
    ELSE /\ closed' = TRUE
         /\ \E broken \in {b \in BOOLEAN : b => \E w \in Workers : Dead(w)} :
              IF broken
                THEN /\ pipe_in' = [w \in Workers |->
                                      IF w < FirstDead THEN Append(pipe_in[w], Msg("close", 0))
                                                       ELSE pipe_in[w]]
                     /\ cpc' = "raised"
                     /\ UNCHANGED <<ck, ret>>
                ELSE /\ pipe_in' = SendAll("close", 0)
                     /\ ck' = 1
                     /\ ret' = back
                     /\ cpc' = "sd_recv"

\* recv() on the pipe of a terminated worker blocks
PipeNeverEOF(w) == FALSE

\* pipes[idx].recv() when the worker has terminated and nothing is left to
\* read raises EOFError
PipeEOF(w) == pipe_out[w] = <<>> /\ Dead(w)

\* lines 808-818: one "closed" reply per worker, in worker order, then join
ShutdownRecv ==
  /\ cpc = "sd_recv"
  /\ pipe_out[ck] # <<>> \/ PipeEOF(ck)
  /\ IF PipeEOF(ck)
       THEN cpc' = "raised" /\ UNCHANGED <<pipe_out, ck, running, joined>>
       ELSE /\ pipe_out' = [pipe_out EXCEPT ![ck] = Tail(@)]
            /\ IF Head(pipe_out[ck]).tag # "closed"
                 THEN cpc' = "raised" /\ UNCHANGED <<ck, running, joined>>
                 ELSE IF ck < NumWorkers
                        THEN ck' = ck + 1 /\ UNCHANGED <<cpc, running, joined>>
                        ELSE /\ cpc' = ret
                             /\ joined' = TRUE
                             \* line 1061, after the iterator's own shutdown
                             /\ running' = IF ret = "exhausted" THEN FALSE ELSE running
                             /\ UNCHANGED ck
  /\ UNCHANGED <<pipe_in, queue_out, qcap, workerVars, ret, call, frames, workers_frames,
                 dones, out_tensordicts, cur, closed, ccalls, total_frames,
                 init_random_frames, split_trajs, disc, seenVars, engVars, auxVars,
                 seed, nshut, seed_arg, seeds, nfault>>

\* shutdown() called by the consumer, lines 797-804
ConsumerShutdown ==
  /\ cpc \in {"init", "consumer", "exhausted", "raised", "shut"}
  /\ nshut < MaxShutdownCalls
  /\ nshut' = nshut + 1
  /\ ShutdownSend(IF closed THEN cpc ELSE "shut")
  /\ UNCHANGED <<pipe_out, queue_out, qcap, workerVars, call, frames, workers_frames,
                 dones, out_tensordicts, cur, running, ccalls, total_frames,
                 init_random_frames, split_trajs, disc, seenVars, engVars, auxVars,
                 joined, seed, seed_arg, seeds, nfault>>

\* the reply each call waits for (lines 843, 868, 882, 902)
ExpectedReply(c) ==
  CASE c = "seed" -> "seeded"
    [] c = "reset" -> "reset"
    [] c = "state_dict" -> "state_dict"
    [] c = "load_state_dict" -> "loaded"

\* state_dict(), load_state_dict(), reset(): the message is sent to every worker
ConsumerCall ==
  /\ cpc \in {"init", "consumer"}
  /\ ccalls < MaxConsumerCalls
  /\ \E op \in {"state_dict", "load_state_dict", "reset"} :
       /\ call' = op
       /\ pipe_in' = SendAll(op, 0)
  /\ ccalls' = ccalls + 1
  /\ ret' = cpc
  /\ ck' = 1
  /\ cpc' = "c_recv"
  /\ UNCHANGED <<pipe_out, queue_out, qcap, workerVars, frames, workers_frames, dones,
                 out_tensordicts, cur, running, closed, total_frames,
                 init_random_frames, split_trajs, disc, seenVars, engVars, auxVars, extVars>>

\* set_seed(), lines 840-841: the seed goes to one worker at a time
ConsumerSetSeed ==
  /\ cpc \in {"init", "consumer"}
  /\ ccalls < MaxConsumerCalls
  /\ \E s \in SeedSet :
       /\ pipe_in' = [pipe_in EXCEPT ![1] = Append(@, Msg("seed", s))]
       /\ seed' = s
       /\ seed_arg' = s
  /\ seeds' = [w \in Workers |-> <<>>]
  /\ call' = "seed"
  /\ ccalls' = ccalls + 1
  /\ ret' = cpc
  /\ ck' = 1
  /\ cpc' = "c_recv"
  /\ UNCHANGED <<pipe_out, queue_out, qcap, workerVars, frames, workers_frames, dones,
                 out_tensordicts, cur, running, closed, total_frames,
                 init_random_frames, split_trajs, disc, seenVars, engVars, auxVars, joined, nshut, nfault>>

\* MultiaSyncDataCollector.reset, lines 1075-1080
ResetResume ==
  /\ IF running
       THEN pipe_in' = SendAll(ContinueTag(frames), 0)
       ELSE UNCHANGED pipe_in
  /\ cpc' = ret

\* reset() that resumes the workers without looking at the queue
AfterResetRepliesNoWait ==
  IF disc = "async"
    THEN ResetResume
    ELSE cpc' = ret /\ UNCHANGED pipe_in

\* where reset() goes once every reply is in: the async collector looks at the queue
AfterResetReplies ==
  IF disc = "async"
    THEN IF Len(queue_out) = qcap
           THEN cpc' = "r_sleep" /\ UNCHANGED pipe_in
           ELSE ResetResume
    ELSE cpc' = ret /\ UNCHANGED pipe_in

\* lines 845-847: seed = new_seed, plus one unless this was the last worker
NextSeedNoIncr(new_seed, idx) == new_seed

NextSeed(new_seed, idx) == IF idx < NumWorkers THEN new_seed + 1 ELSE new_seed

\* lines 842-848, 865-869, 880-884, 900-903: one reply is received and checked
CallRecv ==
  /\ cpc = "c_recv"
  /\ pipe_out[ck] # <<>> \/ PipeEOF(ck)
  /\ IF PipeEOF(ck)
       THEN cpc' = "raised" /\ UNCHANGED <<pipe_in, pipe_out, ck, call, seed>>
       ELSE /\ pipe_out' = [pipe_out EXCEPT ![ck] = Tail(@)]
            /\ LET m == Head(pipe_out[ck]) IN
               IF m.tag # ExpectedReply(call)
                 THEN cpc' = "raised" /\ UNCHANGED <<pipe_in, ck, call, seed>>
                 ELSE IF call = "seed"
                        THEN /\ seed' = NextSeed(m.data, ck)
                             /\ IF ck < NumWorkers
                                  THEN /\ ck' = ck + 1
                                       /\ pipe_in' = [pipe_in EXCEPT ![ck + 1] =
                                                        Append(@, Msg("seed", seed'))]
                                       /\ UNCHANGED <<cpc, call>>
                                  \* set_seed ends with self.reset()
                                  ELSE /\ call' = "reset"
                                       /\ pipe_in' = SendAll("reset", 0)
                                       /\ ck' = 1
                                       /\ UNCHANGED cpc
                        ELSE /\ UNCHANGED seed
                             /\ IF ck < NumWorkers
                                  THEN ck' = ck + 1 /\ UNCHANGED <<cpc, call, pipe_in>>
                                  ELSE /\ UNCHANGED <<ck, call>>
                                       /\ IF call = "reset"
                                            THEN AfterResetReplies
                                            ELSE cpc' = ret /\ UNCHANGED pipe_in
  /\ UNCHANGED <<queue_out, qcap, workerVars, ret, frames, workers_frames, dones,
                 out_tensordicts, cur, running, closed, ccalls, total_frames,
                 init_random_frames, split_trajs, disc, seenVars, engVars, auxVars,
                 joined, nshut, seed_arg, seeds, nfault>>

\* lines 1072-1074: after the sleep the queue is looked at once more
ResetAfterSleep ==
  /\ cpc = "r_sleep"
  /\ IF Len(queue_out) = qcap
       THEN cpc' = "raised" /\ UNCHANGED pipe_in
       ELSE ResetResume
  /\ UNCHANGED <<pipe_out, queue_out, qcap, workerVars, ret, call, ck, frames,
                 workers_frames, dones, out_tensordicts, cur, running, closed, ccalls,
                 total_frames, init_random_frames, split_trajs, disc, seenVars, engVars, auxVars, extVars>>

(***************************************************************************)
(* MultiaSyncDataCollector.iterator, lines 1017-1061.                      *)
(***************************************************************************)

\* self.frames_per_worker = np.inf (line 732): every count is below it
BelowFramesPerWorker(n) == TRUE

\* the loop condition, line 1032
AsyncGoesOnStopsEarly(fr) == fr + BlockFrames < total_frames

AsyncGoesOn(fr) == fr < total_frames

\* lines 1018-1031: one continue per worker, then the loop is entered
AsyncIterStart ==
  /\ disc = "async"
  /\ cpc = "init"
  /\ pipe_in' = SendAll(IF init_random_frames > 0 THEN "continue_random" ELSE "continue", 0)
  /\ running' = TRUE
  /\ frames' = 0
  /\ dones' = [w \in Workers |-> FALSE]
  /\ workers_frames' = [w \in Workers |-> 0]
  /\ cpc' = "a_loop"
  /\ UNCHANGED <<pipe_out, queue_out, qcap, workerVars, ret, call, ck, out_tensordicts,
                 cur, closed, ccalls, total_frames, init_random_frames, split_trajs,
                 disc, seenVars, engVars, auxVars, extVars>>

\* line 1032 and lines 1060-1061: the loop goes on, or the workers are shut down
AsyncLoop ==
  /\ disc = "async"
  /\ cpc = "a_loop"
  /\ IF AsyncGoesOn(frames)
       THEN /\ cpc' = "a_get"
            /\ UNCHANGED <<pipe_in, closed, ck, ret>>
       ELSE ShutdownSend("exhausted")
  /\ UNCHANGED <<pipe_out, queue_out, qcap, workerVars, call, frames, workers_frames,
                 dones, out_tensordicts, cur, running, ccalls, total_frames,
                 init_random_frames, split_trajs, disc, seenVars, engVars, auxVars, extVars>>

\* lines 1034-1040: the blocking pop, the block is resolved and counted.
\* With split_trajs the block is copied by split_trajectories here; copy records
\* the contents read (0: the block is not copied yet).
AsyncGet ==
  /\ cpc = "a_get"
  /\ queue_out # <<>>
  /\ LET e == Head(queue_out) IN
     /\ queue_out' = Tail(queue_out)
     /\ IF e.j # 0 /\ ~Cached(out_tensordicts, e.idx)
          \* KeyError in self.out_tensordicts[idx]
          THEN /\ cpc' = "raised"
               /\ UNCHANGED <<out_tensordicts, frames, workers_frames, cur>>
          ELSE /\ out_tensordicts' = CacheBlock(out_tensordicts, e)
               /\ frames' = frames + BlockFrames
               /\ workers_frames' = [workers_frames EXCEPT ![e.idx] = @ + BlockFrames]
               /\ cur' = <<[idx |-> e.idx, j |-> e.j, pub |-> e.pub,
                            copy |-> IF split_trajs THEN store[e.idx] ELSE 0]>>
               /\ cpc' = "a_redispatch"
  /\ UNCHANGED <<pipe_in, pipe_out, qcap, workerVars, ret, call, ck, dones, running,
                 closed, ccalls, total_frames, init_random_frames, split_trajs, disc,
                 seenVars, engVars, auxVars, extVars>>

\* lines 1046-1054: the worker that delivered is re-armed, or marked done
AsyncRedispatch ==
  /\ cpc = "a_redispatch"
  /\ LET idx == cur[1].idx IN
     IF BelowFramesPerWorker(workers_frames[idx])
       THEN /\ pipe_in' = [pipe_in EXCEPT ![idx] = Append(@, Msg(ContinueTag(frames), idx))]
            /\ UNCHANGED dones
       ELSE /\ dones' = [dones EXCEPT ![idx] = TRUE]
            /\ UNCHANGED pipe_in
  /\ cpc' = "a_yield"
  /\ UNCHANGED <<pipe_out, queue_out, qcap, workerVars, ret, call, ck, frames,
                 workers_frames, out_tensordicts, cur, running, closed, ccalls,
                 total_frames, init_random_frames, split_trajs, disc, seenVars, engVars, auxVars, extVars>>

\* line 1058: yield out.clone(); got is what the clone reads
AsyncYield ==
  /\ cpc = "a_yield"
  /\ LET e == cur[1] IN
     lasty' = <<[idx |-> e.idx, j |-> e.j, pub |-> e.pub,
                 got |-> IF split_trajs THEN e.copy ELSE store[e.idx]]>>
  /\ nyield' = nyield + 1
  /\ sumyield' = sumyield + BlockFrames
  /\ cur' = <<>>
  /\ cpc' = "consumer"
  /\ UNCHANGED <<chanVars, workerVars, ret, call, ck, frames, workers_frames, dones,
                 out_tensordicts, running, closed, ccalls, total_frames,
                 init_random_frames, split_trajs, disc, round, engVars, auxVars, extVars>>

\* the consumer asks for the next block
AsyncNext ==
  /\ disc = "async"
  /\ cpc = "consumer"
  /\ cpc' = "a_loop"
  /\ UNCHANGED <<chanVars, workerVars, ret, call, ck, frames, workers_frames, dones,
                 out_tensordicts, cur, running, closed, ccalls, total_frames,
                 init_random_frames, split_trajs, disc, seenVars, engVars, auxVars, extVars>>

\* one step of the loop of worker w
WorkerStep(w) ==
  WorkerPoll(w) \/ WorkerCollect(w) \/ WorkerPostPoll(w) \/ WorkerPut(w) \/ WorkerHandle(w)

Worker == \E w \in Workers : WorkerStep(w)

NextAsync ==
  \/ Worker
  \/ AsyncIterStart \/ AsyncLoop \/ AsyncGet \/ AsyncRedispatch \/ AsyncYield \/ AsyncNext
  \/ ConsumerCall \/ ConsumerSetSeed \/ CallRecv \/ ResetAfterSleep \/ ShutdownRecv

\* _queue_len of MultiaSyncDataCollector is 1 (line 1015)
InitAsync == InitMulti("async", AsyncQueueLen)

SpecAsync == InitAsync /\ [][NextAsync]_vars

(***************************************************************************)
(* MultiSyncDataCollector.iterator, lines 926-980.                         *)
(***************************************************************************)

\* line 945: for k in range(self.num_workers)
RoundSizeShort == NumWorkers - 1

RoundSize == NumWorkers

\* the loop ends one block before the target
SyncGoesOnStopsEarly(ds, fr) ==
  (\E w \in Workers : ~ds[w]) /\ fr + BlockFrames < total_frames

\* line 932: while not all(dones) and frames < self.total_frames
SyncGoesOn(ds, fr) == (\E w \in Workers : ~ds[w]) /\ fr < total_frames

\* lines 932-943 and 979-980: the consumer asks for the next batch; a round is
\* dispatched to every worker, or the workers are shut down
SyncNext ==
  /\ disc = "sync"
  /\ cpc \in {"init", "consumer"}
  /\ IF SyncGoesOn(dones, frames)
       THEN /\ pipe_in' = SendAll(ContinueTag(frames), 0)
            /\ round' = round + 1
            /\ ck' = 0
            /\ cpc' = "s_collect"
            /\ UNCHANGED <<closed, ret>>
       ELSE /\ ShutdownSend("exhausted")
            /\ UNCHANGED round
  /\ UNCHANGED <<pipe_out, queue_out, qcap, workerVars, call, frames, workers_frames,
                 dones, out_tensordicts, cur, running, ccalls, total_frames,
                 init_random_frames, split_trajs, disc, nyield, sumyield, lasty, engVars, auxVars, extVars>>

\* lines 945-958: one entry is read off the queue and counted
SyncCollect ==
  /\ cpc = "s_collect"
  /\ queue_out # <<>>
  /\ LET e == Head(queue_out) IN
     /\ queue_out' = Tail(queue_out)
     /\ IF e.j # 0 /\ ~Cached(out_tensordicts, e.idx)
          \* KeyError in out_tensordicts_shared[idx]
          THEN /\ cpc' = "raised"
               /\ UNCHANGED <<out_tensordicts, workers_frames, dones, ck>>
          ELSE /\ out_tensordicts' = CacheBlock(out_tensordicts, e)
               /\ workers_frames' = [workers_frames EXCEPT ![e.idx] = @ + BlockFrames]
               /\ dones' = [dones EXCEPT ![e.idx] =
                              @ \/ workers_frames[e.idx] + BlockFrames >= total_frames]
               /\ ck' = ck + 1
               /\ cpc' = IF ck + 1 = RoundSize THEN "s_merge" ELSE "s_collect"
  /\ UNCHANGED <<pipe_in, pipe_out, qcap, workerVars, ret, call, frames, cur, running,
                 closed, ccalls, total_frames, init_random_frames, split_trajs, disc,
                 seenVars, engVars, auxVars, extVars>>

\* line 966: torch.cat([item for key, item in out_tensordicts_shared.items()], 0):
\* the blocks are concatenated in the order of the dictionary's keys
MergeOrderFirstOnly(cache) == SubSeq(cache, 1, 1)

MergeOrder(cache) == cache

\* lines 959-977: the cached blocks are merged, counted and yielded.
\* lasty records the worker of each lane group of the merged batch, in order.
SyncMerge ==
  /\ cpc = "s_merge"
  /\ IF \E w \in Workers : ~Cached(out_tensordicts, w)
       \* KeyError in out_tensordicts_shared[idx] (line 960)
       THEN /\ cpc' = "raised"
            /\ UNCHANGED <<frames, nyield, sumyield, lasty>>
       ELSE /\ frames' = frames + BlockFrames * Len(out_tensordicts)
            /\ nyield' = nyield + 1
            /\ sumyield' = sumyield + BlockFrames * Len(out_tensordicts)
            /\ lasty' = <<MergeOrder(out_tensordicts)>>
            /\ cpc' = "consumer"
  /\ UNCHANGED <<chanVars, workerVars, ret, call, ck, workers_frames, dones,
                 out_tensordicts, cur, running, closed, ccalls, total_frames,
                 init_random_frames, split_trajs, disc, round, engVars, auxVars, extVars>>

NextSync ==
  \/ Worker
  \/ SyncNext \/ SyncCollect \/ SyncMerge
  \/ ConsumerCall \/ ConsumerSetSeed \/ CallRecv \/ ShutdownRecv

\* _queue_len of MultiSyncDataCollector is num_workers (line 924)
InitSync == InitMulti("sync", NumWorkers)

SpecSync == InitSync /\ [][NextSync]_vars

(***************************************************************************)
(* The life cycle of the three collectors, with protocol faults: a peer    *)
(* puts a message with an unrecognized tag on a worker's pipe (received at *)
(* line 1233), or a reply with an unrecognized tag on the coordinator's    *)
(* side (received at lines 809, 842, 867, 881, 901).                       *)
(***************************************************************************)
InjectUnknown ==
  /\ cpc \in {"init", "consumer"}
  /\ nfault < MaxFaults
  /\ \E w \in Workers :
       pipe_in' = [pipe_in EXCEPT ![w] = Append(@, Msg("unknown", 0))]
  /\ nfault' = nfault + 1
  /\ UNCHANGED <<pipe_out, queue_out, qcap, workerVars, coordVars, seenVars, engVars, auxVars,
                 joined, seed, nshut, seed_arg, seeds>>

FaultyReply ==
  /\ cpc \in {"init", "consumer"}
  /\ nfault < MaxFaults
  /\ \E w \in Workers :
       \* only a worker process that is still running writes to its pipe
       /\ ~Dead(w) /\ wpc[w] # "closed"
       /\ pipe_out' = [pipe_out EXCEPT ![w] = Append(@, Msg("unknown", 0))]
  /\ nfault' = nfault + 1
  /\ UNCHANGED <<pipe_in, queue_out, qcap, workerVars, coordVars, seenVars, engVars, auxVars,
                 joined, seed, nshut, seed_arg, seeds>>

\* the collectors with shutdown() calls by the consumer
NextClose ==
  \/ Worker
  \/ AsyncIterStart \/ AsyncLoop \/ AsyncGet \/ AsyncRedispatch \/ AsyncYield \/ AsyncNext
  \/ SyncNext \/ SyncCollect \/ SyncMerge
  \/ ConsumerShutdown \/ ShutdownRecv
  \/ RolloutStart \/ EnvStep \/ Bookkeep \/ IteratorYield \/ IteratorStop \/ EngineShutdown

\* one configuration of each collector class
InitClose ==
  \/ InitSync /\ ~split_trajs
  \/ InitAsync /\ ~split_trajs
  \/ /\ InitEngine
     /\ cfg.max_frames_per_traj = -1
     /\ ~cfg.reset_at_each_iter
     /\ ~cfg.init_with_lag

SpecClose == InitClose /\ [][NextClose]_vars

\* every process that can take a step eventually takes one: each worker runs
\* its loop, the coordinator goes on with the replies that have arrived
SpecCloseFair ==
  /\ SpecClose
  /\ \A w \in Workers : WF_vars(WorkerStep(w))
  /\ WF_vars(ShutdownRecv)

\* the multi-worker collectors with consumer calls, shutdown() and faults
NextFault ==
  \/ Worker
  \/ AsyncIterStart \/ AsyncLoop \/ AsyncGet \/ AsyncRedispatch \/ AsyncYield \/ AsyncNext
  \/ SyncNext \/ SyncCollect \/ SyncMerge
  \/ ConsumerCall \/ CallRecv \/ ResetAfterSleep
  \/ ConsumerShutdown \/ ShutdownRecv
  \/ InjectUnknown \/ FaultyReply

InitFault ==
  \/ InitSync /\ ~split_trajs
  \/ InitAsync /\ ~split_trajs

SpecFault == InitFault /\ [][NextFault]_vars

(***************************************************************************)
(* A second iteration: the consumer leaves the loop after a batch and      *)
(* calls iter() on the collector again (__iter__ returns self.iterator()). *)
(* The locals of MultiSyncDataCollector.iterator (lines 927-931) are new;  *)
(* MultiaSyncDataCollector.iterator sets its own in AsyncIterStart and     *)
(* keeps self.out_tensordicts.                                             *)
(***************************************************************************)
IterRestart ==
  /\ cpc = "consumer"
  /\ ccalls < MaxConsumerCalls
  /\ ccalls' = ccalls + 1
  /\ cpc' = "init"
  /\ IF disc = "sync"
       THEN /\ frames' = 0
            /\ out_tensordicts' = <<>>
            /\ dones' = [w \in Workers |-> FALSE]
            /\ workers_frames' = [w \in Workers |-> 0]
       ELSE UNCHANGED <<frames, out_tensordicts, dones, workers_frames>>
  /\ UNCHANGED <<chanVars, workerVars, ret, call, ck, cur, running, closed, total_frames,
                 init_random_frames, split_trajs, disc, seenVars, engVars, auxVars, extVars>>

NextRestart ==
  \/ Worker
  \/ AsyncIterStart \/ AsyncLoop \/ AsyncGet \/ AsyncRedispatch \/ AsyncYield \/ AsyncNext
  \/ SyncNext \/ SyncCollect \/ SyncMerge
  \/ ShutdownRecv
  \/ IterRestart

SpecRestart == InitFault /\ [][NextRestart]_vars

(***************************************************************************)
(* Claims about the async discipline (checked under SpecAsync).            *)
(***************************************************************************)
IteratorFinished ==
  cpc = "exhausted" \/ (cpc = "sd_recv" /\ ret = "exhausted")

\* C1: async discipline, finite target: when the iterator finishes (Close is
\* sent), the frames of the yielded blocks sum to at least total_frames, the
\* iterator stopped at the first block for which this holds, and with blocks
\* of BlockFrames frames it has yielded at least ceil(total_frames/BlockFrames)
\* blocks.
C1_AsyncYieldsTargetThenStops ==
  disc = "async" =>
    /\ nyield > 0 => sumyield - BlockFrames < total_frames
    /\ sumyield = nyield * BlockFrames
    /\ IteratorFinished =>
         /\ sumyield >= total_frames
         /\ nyield * BlockFrames >= total_frames
    /\ (\E w \in Workers : msg[w] = "close"
                           \/ \E i \in DOMAIN pipe_in[w] : pipe_in[w][i].tag = "close")
         => sumyield >= total_frames

\* C1 witness: the iterator has finished after yielding three blocks of 2
\* frames for a target of 5 frames, and every worker has been closed.
C1_Witness ==
  /\ disc = "async"
  /\ cpc = "exhausted"
  /\ nyield * BlockFrames >= total_frames
  /\ (nyield - 1) * BlockFrames < total_frames
  /\ nyield >= 2
  /\ \A w \in Workers : wpc[w] = "closed"

\* a worker's share of the target
WorkerShare == (total_frames + NumWorkers - 1) \div NumWorkers

\* C2: async discipline: no worker's individually counted frames exceed its
\* share of the target by more than one block, and a worker whose count has
\* reached its share is marked done once the re-dispatch decision is taken.
C2_WorkerStopsAtItsShare ==
  disc = "async" =>
    \A w \in Workers :
      /\ workers_frames[w] <= WorkerShare + BlockFrames
      /\ (workers_frames[w] >= WorkerShare /\ cpc # "a_redispatch") => dones[w]

\* C7: async discipline: while the frame count is below the target the
\* coordinator never blocks on the queue with every worker idle: it is never
\* the case that the coordinator waits in the blocking pop, the queue is empty
\* and every (live) worker waits for a message with none pending and no
\* timeout flag, so that no block will ever be produced.
C7_AsyncPopEventuallyReturns ==
  ~ /\ disc = "async"
    /\ cpc = "a_get"
    /\ frames < total_frames
    /\ queue_out = <<>>
    /\ \A w \in Workers :
         /\ wpc[w] = "poll"
         /\ pipe_in[w] = <<>>
         /\ ~has_timed_out[w]

\* C8: a poll timeout with no pending message is never an error, whatever
\* has_timed_out and the last received message are.
C8_PollTimeoutIsNeverAnError ==
  \A w \in Workers : wpc[w] # "timeout_error"

\* C9: async discipline: the block yielded for entry (w, j) has exactly the
\* contents worker w published with that entry.
C9_YieldedBlockIsThePublishedBlock ==
  (disc = "async" /\ lasty # <<>>) => lasty[1].got = lasty[1].pub

(***************************************************************************)
(* Claims about the sync discipline (checked under SpecSync).              *)
(***************************************************************************)
SeqCount(s, P(_)) == Cardinality({i \in DOMAIN s : P(s[i])})

IsContinue(m) == m.tag \in ContinueTags

\* directives of worker w not answered by a collected entry yet: continue
\* messages in its pipe, a block being produced or published, entries queued
Outstanding(w) ==
  SeqCount(pipe_in[w], IsContinue)
  + (IF \/ wpc[w] \in {"postpoll", "put"}
        \/ (wpc[w] = "dispatch" /\ msg[w] \in ContinueTags)
       THEN 1 ELSE 0)
  + SeqCount(queue_out, LAMBDA e : e.idx = w)

RECURSIVE SumOutstanding(_)
SumOutstanding(S) ==
  IF S = {} THEN 0
  ELSE LET w == CHOOSE x \in S : TRUE IN Outstanding(w) + SumOutstanding(S \ {w})

\* C3: sync discipline: in every round, whatever the arrival order of the
\* entries in this and earlier rounds, the lanes of the merged batch are
\* ordered by ascending worker index.
C3_MergedInWorkerOrder ==
  (disc = "sync" /\ lasty # <<>>) =>
    lasty[1] = [i \in 1..NumWorkers |-> i]

\* C10: sync discipline: rounds are strictly sequential (a worker never has
\* more than one directive outstanding, and during a round the directives
\* outstanding plus the entries collected are exactly N), and outside a round,
\* from the yield of a merged batch to the next dispatch, no worker computes a
\* step or publishes a block: nothing is outstanding, the queue is empty and no
\* worker has timed out.
C10_SyncRoundsSequentialWorkersIdleBetween ==
  disc = "sync" =>
    /\ \A w \in Workers : Outstanding(w) <= 1 /\ wpc[w] # "timeout_error"
    /\ cpc = "s_collect" => SumOutstanding(Workers) + ck = NumWorkers
    /\ cpc # "s_collect" => /\ SumOutstanding(Workers) = 0
                            /\ queue_out = <<>>

\* C10 witness: after the second merged batch has been yielded and the consumer
\* has made a call on the collector, every worker waits for a message.
C10_Witness ==
  /\ disc = "sync"
  /\ cpc = "consumer"
  /\ nyield = 2
  /\ ccalls = 1
  /\ \A w \in Workers : wpc[w] = "poll" /\ nroll[w] = 2 /\ j[w] = 2

(***************************************************************************)
(* Claims about the engine (checked under SpecEngine).                     *)
(***************************************************************************)
LastFrame == tensordict_out[Len(tensordict_out)]

\* C4: over the whole run of one engine, two captured frames that belong to
\* different trajectories (different lanes, or one lane on both sides of an
\* environment reset) never carry the same traj_id.
C4_TrajIdNeverReused ==
  \A a \in hist, b \in hist :
    (a.lane # b.lane \/ a.epi # b.epi) => a.id # b.id

\* C5: all captured frames of one uninterrupted trajectory of a lane carry
\* the same traj_id, also when the trajectory spans two blocks.
C5_TrajIdStableWithinTrajectory ==
  \A a \in hist, b \in hist :
    (a.lane = b.lane /\ a.epi = b.epi) => a.id = b.id

C15_RoundTripRestoresState ==
  nloads > 0 => epc # "load_error"

CeilDiv(a, b) == (a + b - 1) \div b

\* blocks the single-process iterator is to yield for a finite target
BlocksToYield ==
  CeilDiv(cfg.total_frames, NLanes * CeilDiv(cfg.frames_per_batch_arg, NLanes))

\* C16: single-process collector with n lanes, frames_per_batch F and a finite
\* total_frames X: every block handed to the consumer has exactly ceil(F/n)
\* frames per lane, the iterator never yields more than ceil(X/(n*ceil(F/n)))
\* blocks, it does not stop before that many, and it stops when asked again.
C16_IteratorYieldsCeilBlocks ==
  (epc # "unused" /\ cfg.total_frames > 0) =>
    /\ epc = "yield" => Len(tensordict_out) = CeilDiv(cfg.frames_per_batch_arg, NLanes)
    /\ dc_frames = yielded * NLanes * CeilDiv(cfg.frames_per_batch_arg, NLanes)
    /\ yielded <= BlocksToYield
    /\ ncalls <= BlocksToYield
    /\ epc = "exhausted" => yielded = BlocksToYield
    /\ (yielded = BlocksToYield /\ yielded > 0) => ReachedTotal(dc_frames) /\ env_closed

\* C16 witness: the iterator has stopped after 2 blocks of 2 frames per lane
\* (frames_per_batch 3 on 2 lanes, total_frames 6).
C16_Witness ==
  /\ epc = "exhausted"
  /\ cfg.total_frames = 6
  /\ yielded = 2
  /\ dc_frames = 8
  /\ Len(tensordict_out) = 2

\* frames captured for each lane since the engine was built
FramesPerLane ==
  IF ncalls = 0 THEN 0 ELSE (ncalls - 1) * cfg.frames_per_batch + Len(tensordict_out)

\* C17: with max_frames_per_traj = M > 0, an environment that never reports
\* done, no lag, no reset at each block and no reset() call: every captured
\* frame has step_count in 1..M, every trajectory of a lane is made of exactly
\* M consecutive frames, all frames of one trajectory carry one traj_id, and
\* the first frame after the M-th carries a traj_id different from it.
C17_TrajIdOncePerStretch ==
  ( /\ epc # "unused"
    /\ cfg.max_frames_per_traj > 0
    /\ ~cfg.init_with_lag
    /\ ~cfg.reset_at_each_iter
    /\ nresets = 0
    /\ ~ever_done ) =>
    /\ \A i \in DOMAIN tensordict_out : \A l \in Lanes :
         tensordict_out[i][l].step_count \in 1..cfg.max_frames_per_traj
    /\ \A l \in Lanes :
         epi[l] * cfg.max_frames_per_traj + since[l] = FramesPerLane
    /\ \A a \in hist, b \in hist :
         a.lane = b.lane =>
           /\ a.epi = b.epi => a.id = b.id
           /\ a.epi = b.epi + 1 => a.id # b.id

(***************************************************************************)
(* Claims about the life cycle (SpecClose, SpecCloseFair) and about        *)
(* failures (SpecFault).                                                   *)
(***************************************************************************)
\* C11: a shutdown() call on a collector that is closed already (by an
\* earlier call, or by the iterator on exhaustion) changes nothing: no message
\* is sent, no reply is awaited, nothing is raised, the caller is where it was.
\* This holds for the multi-worker collectors and for the single-process one.
C11_ShutdownIsIdempotent ==
  [][ /\ (closed /\ nshut' = nshut + 1) =>
           UNCHANGED <<chanVars, workerVars, coordVars, joined>>
      /\ (dc_closed /\ dc_nshut' = dc_nshut + 1) =>
           UNCHANGED <<epc, dc_closed, env_closed, rolloutVars>> ]_vars

\* C11 witness: shutdown() has been called twice on a multi-worker collector
\* in the middle of an iteration; the workers are closed and joined.
C11_Witness ==
  /\ nshut = 2
  /\ cpc = "shut"
  /\ nyield > 0
  /\ joined
  /\ \A w \in Workers : wpc[w] = "closed" /\ pipe_in[w] = <<>> /\ pipe_out[w] = <<>>

\* worker w is running and has a close to handle
WillReplyClosed(w) ==
  /\ wpc[w] \in {"poll", "dispatch", "postpoll", "put"}
  /\ \/ wpc[w] = "dispatch" /\ msg[w] = "close"
     \/ \E i \in DOMAIN pipe_in[w] : pipe_in[w][i].tag = "close"

\* C12: whenever shutdown() waits for the reply of a worker, also after
\* workers have aborted or a coordinator call has raised, the wait ends: a
\* reply is there, or the worker has terminated and the receive raises, or the
\* worker is running and has a close to handle; and the join is only reached
\* when every worker has terminated.
C12_ShutdownNeverWaitsForever ==
  /\ cpc = "sd_recv" => (ENABLED ShutdownRecv) \/ WillReplyClosed(ck)
  /\ joined => \A w \in Workers : wpc[w] = "closed"

\* C12 witness: shutdown() was called after a worker aborted on an
\* unrecognized message, and has ended (by raising) instead of waiting.
C12_Witness ==
  /\ nshut > 0
  /\ closed
  /\ cpc = "raised"
  /\ \E w \in Workers : wpc[w] = "protocol_error" /\ pipe_out[w] = <<>>
  /\ \E w \in Workers : wpc[w] = "closed"

\* a worker is about to compute a rollout beyond the rollouts explored
RolloutsExplored ==
  \E w \in Workers :
    wpc[w] = "dispatch" /\ msg[w] \in ContinueTags /\ nroll[w] = MaxWorkerRollouts

\* C13: once close has been sent to every worker by a normal shutdown, every
\* worker eventually terminates and the coordinator joins them (in every run
\* that stays within the rollouts explored); a worker replies closed once (its
\* reply is the only thing on its reply pipe, and it has nothing left to
\* read), and a terminated worker never changes the queue or its counters
\* again.
C13_NormalShutdownCompletes ==
  /\ (disc # "none" /\ cpc = "sd_recv") ~>
        ((joined /\ \A w \in Workers : wpc[w] = "closed") \/ RolloutsExplored)
  /\ [](\A w \in Workers :
          wpc[w] = "closed" =>
            /\ pipe_in[w] = <<>>
            /\ Len(pipe_out[w]) <= 1
            /\ pipe_out[w] # <<>> => pipe_out[w][1].tag = "closed")
  /\ [][\A w \in Workers :
          wpc[w] = "closed" =>
            /\ wpc'[w] = "closed"
            /\ j'[w] = j[w] /\ nroll'[w] = nroll[w]
            /\ \A i \in DOMAIN queue_out' :
                 queue_out'[i].idx = w => \E k \in DOMAIN queue_out : queue_out[k] = queue_out'[i]]_vars

\* C13 witness: the async collector was shut down while a worker was retrying
\* a publish on the full queue; every worker is closed and joined.
C13_Witness ==
  /\ disc = "async"
  /\ joined
  /\ cpc \in {"shut", "exhausted"}
  /\ queue_out # <<>>
  /\ \E w \in Workers : wpc[w] = "closed" /\ has_timed_out[w]

KnownTags ==
  {"continue", "continue_random", "update", "seed", "reset", "state_dict",
   "load_state_dict", "close"}

\* the tag the coordinator expects in its current receive
AwaitedReply == IF cpc = "sd_recv" THEN "closed" ELSE ExpectedReply(call)

\* C20: a worker that dispatches on a message whose tag is none of the known
\* ones aborts, stays aborted and sends no further reply; a coordinator call that takes a reply with
\* another tag than the expected one off the pipe raises, and the call is not
\* resumed.
C20_ProtocolErrorsAreFatal ==
  [][ /\ \A w \in Workers :
           /\ (wpc[w] = "dispatch" /\ msg[w] \notin KnownTags /\ wpc'[w] # wpc[w])
                => wpc'[w] = "protocol_error"
           /\ wpc[w] = "protocol_error" =>
                (wpc'[w] = "protocol_error" /\ Len(pipe_out'[w]) <= Len(pipe_out[w]))
      /\ (/\ cpc \in {"c_recv", "sd_recv"}
          /\ pipe_out[ck] # <<>>
          /\ pipe_out'[ck] = Tail(pipe_out[ck])
          /\ Head(pipe_out[ck]).tag # AwaitedReply) => cpc' = "raised"
      /\ cpc = "raised" => cpc' \in {"raised", "sd_recv"} ]_vars

\* C20 witness: a state_dict() or load_state_dict() call has raised on a reply
\* with an unrecognized tag while every worker was running.
C20_Witness ==
  /\ cpc = "raised"
  /\ nfault = 1
  /\ call \in {"state_dict", "load_state_dict"}
  /\ ~closed
  /\ \A w \in Workers : ~Dead(w)

(***************************************************************************)
(* Claims about seeding, the merge and the re-dispatch.                    *)
(***************************************************************************)
\* C14: set_seed(s) seeds the workers one after the other: the first worker
\* is sent s, every later worker is sent the seed returned by the worker
\* before it plus one; when every worker returns the seed it was sent, worker
\* i (counted from 0) was sent s + i and set_seed ends with s + K - 1.
C14_SeedsAreChained ==
  disc # "none" =>
    /\ \A w \in Workers :
         seeds[w] # <<>> =>
           /\ w = 1 => seeds[w][1].got = seed_arg
           /\ w > 1 => /\ seeds[w - 1] # <<>>
                       /\ seeds[w][1].got = seeds[w - 1][1].ret + 1
    /\ (\A w \in Workers : seeds[w] # <<>> /\ seeds[w][1].ret = seeds[w][1].got) =>
         /\ \A w \in Workers : seeds[w][1].got = seed_arg + (w - 1)
         /\ call # "seed" => seed = seed_arg + NumWorkers - 1

\* C14 witness: set_seed(7) has returned between two batches; every worker
\* returned the seed it was sent, the last one 7 + K - 1.
C14_Witness ==
  /\ cpc = "consumer"
  /\ call = "reset"
  /\ nyield > 0
  /\ \A w \in Workers : seeds[w] # <<>> /\ seeds[w][1].ret = seeds[w][1].got
  /\ seeds[NumWorkers][1].got = seed_arg + NumWorkers - 1
  /\ seed = seed_arg + NumWorkers - 1

\* C18: sync discipline: every merged batch holds the block of each of the N
\* workers exactly once, so the frames yielded are the sum of the frames of
\* the N blocks.
C18_MergedBatchHasEveryWorkerOnce ==
  (disc = "sync" /\ lasty # <<>>) =>
    /\ Len(lasty[1]) = NumWorkers
    /\ \A w \in Workers : Cardinality({i \in DOMAIN lasty[1] : lasty[1][i] = w}) = 1
    /\ sumyield = nyield * NumWorkers * BlockFrames

\* C18 witness: the second merged batch was yielded, with the blocks cached in
\* another order than the workers' indices.
C18_Witness ==
  /\ disc = "sync"
  /\ nyield = 2
  /\ cpc = "consumer"
  /\ lasty # <<>>
  /\ lasty[1][1] = NumWorkers

\* C19: async discipline: the pop of an entry sends nothing; the step after
\* it sends continue or continue_random to the worker that delivered the
\* entry (or marks that worker done) and yields nothing; and a block is
\* yielded only by the step after that, which sends nothing.
C19_RedispatchBetweenPopAndYield ==
  [][ disc = "async" =>
        /\ (cpc = "a_get" /\ cpc' # cpc) =>
              (cpc' \in {"a_redispatch", "raised"} /\ pipe_in' = pipe_in /\ nyield' = nyield)
        /\ (cpc = "a_redispatch" /\ cpc' # cpc) =>
              /\ cpc' = "a_yield"
              /\ nyield' = nyield
              /\ LET idx == cur[1].idx IN
                   \/ dones'[idx]
                   \/ /\ Len(pipe_in'[idx]) = Len(pipe_in[idx]) + 1
                      /\ pipe_in'[idx][Len(pipe_in'[idx])].tag \in ContinueTags
        /\ (nyield' # nyield) =>
              (cpc = "a_yield" /\ cpc' = "consumer" /\ pipe_in' = pipe_in) ]_vars

\* C19 witness: the consumer holds the third block; the worker that delivered
\* it has its next directive waiting on its pipe.
C19_Witness ==
  /\ disc = "async"
  /\ cpc = "consumer"
  /\ nyield = 3
  /\ lasty # <<>>
  /\ ~dones[lasty[1].idx]
  /\ \E i \in DOMAIN pipe_in[lasty[1].idx] : pipe_in[lasty[1].idx][i].tag \in ContinueTags

(***************************************************************************)
(* Claims about the queue entries and the rounds.                          *)
(***************************************************************************)
\* the entries of worker w in the queue, oldest first
EntriesOf(w) == SelectSeq(queue_out, LAMBDA e : e.idx = w)

\* C25: the entries a worker publishes carry j = 0, 1, 2, ... with no gap or
\* repeat: a publish appends an entry with the worker's current j and adds one
\* to j, no other step of the worker (a discarded block, a queue-full timeout,
\* a control message) changes j; the entry with j = 0 carries the block by
\* value, every later entry the worker index only.
C25_SequenceNumbersCountPublishes ==
  /\ [](\A w \in Workers :
          LET es == EntriesOf(w) IN
          /\ \A i \in DOMAIN es :
               /\ es[i].j < j[w]
               /\ es[i].data = IF es[i].j = 0 THEN "block" ELSE "idx"
               /\ i > 1 => es[i].j = es[i - 1].j + 1
          /\ es # <<>> => es[Len(es)].j = j[w] - 1)
  /\ [][\A w \in Workers :
          IF /\ Len(queue_out') = Len(queue_out) + 1
             /\ queue_out'[Len(queue_out')].idx = w
            THEN /\ queue_out'[Len(queue_out')].j = j[w]
                 /\ j'[w] = j[w] + 1
            ELSE j'[w] = j[w]]_vars

\* C25 witness: a worker has published entries 0 and 1 out of four rollouts:
\* two of its blocks were discarded or timed out on the full queue, and its
\* second entry is in the queue.
C25_Witness ==
  \E w \in Workers :
    /\ j[w] = 2
    /\ nroll[w] = 4
    /\ \E i \in DOMAIN queue_out : queue_out[i].idx = w /\ queue_out[i].j = 1
                                   /\ queue_out[i].data = "idx"

\* C26: whenever the coordinator is about to take a reuse entry (j > 0) of
\* worker w off the queue, it holds a cached block for w.
C26_ReuseEntryFindsCachedBlock ==
  (cpc \in {"a_get", "s_collect"} /\ queue_out # <<>> /\ Head(queue_out).j > 0) =>
    Cached(out_tensordicts, Head(queue_out).idx)

\* workers whose entry of the current round has been collected
CollectedThisRound == {w \in Workers : workers_frames[w] = round * BlockFrames}

\* C27: sync discipline: in each round every worker computes exactly one
\* block; the entries in the queue are entries of the current round (the
\* block of the round's rollout, sequence number round - 1), at most one per
\* worker and none of a worker whose entry has been collected; the entries
\* collected so far in the round come from as many distinct workers, and when
\* the round is complete every worker has been collected exactly once.
C27_OneEntryPerWorkerPerRound ==
  disc = "sync" =>
    /\ \A w \in Workers :
         /\ nroll[w] \in {round - 1, round}
         /\ workers_frames[w] \in {(round - 1) * BlockFrames, round * BlockFrames}
         /\ Len(EntriesOf(w)) <= 1
         /\ w \in CollectedThisRound => (EntriesOf(w) = <<>> /\ nroll[w] = round)
    /\ \A i \in DOMAIN queue_out :
         queue_out[i].pub = round /\ queue_out[i].j = round - 1
    /\ cpc = "s_collect" => Cardinality(CollectedThisRound) = ck
    /\ cpc # "s_collect" => CollectedThisRound = Workers

\* C27 witness: the second round is being collected: the entry of the last
\* worker has been read first, the entry of another worker is in the queue.
C27_Witness ==
  /\ disc = "sync"
  /\ cpc = "s_collect"
  /\ round = 2
  /\ ck = 1
  /\ CollectedThisRound = {NumWorkers}
  /\ queue_out # <<>>

\* every worker is sent one more message, with a tag of the set tags
AllSent(tags) ==
  \A w \in Workers :
    /\ Len(pipe_in'[w]) = Len(pipe_in[w]) + 1
    /\ SubSeq(pipe_in'[w], 1, Len(pipe_in[w])) = pipe_in[w]
    /\ pipe_in'[w][Len(pipe_in'[w])].tag \in tags

\* C29: sync discipline, finite target: when the consumer asks for the next
\* batch, another round is started iff the frames counted so far are below
\* the target; the round is dispatched to every worker; otherwise close is
\* sent to every worker. The all-workers-done condition never ends the loop
\* earlier: workers are all flagged done only when the target is reached.
C29_SyncLoopsUntilTarget ==
  /\ [](disc = "sync" =>
          /\ \A w \in Workers : dones[w] => workers_frames[w] >= total_frames
          /\ cpc \in {"init", "consumer"} =>
               ((\A w \in Workers : dones[w]) => frames >= total_frames))
  /\ [][(disc = "sync" /\ cpc \in {"init", "consumer"}
                       /\ (cpc' \in {"s_collect", "sd_recv", "exhausted"} \/ round' # round)) =>
          IF frames < total_frames
            THEN round' = round + 1 /\ cpc' = "s_collect" /\ AllSent(ContinueTags)
            ELSE round' = round /\ cpc' = "sd_recv" /\ AllSent({"close"})]_vars

\* C29 witness: the iterator has ended after two rounds: the target was
\* reached while no worker was flagged done, and every worker has been closed.
C29_Witness ==
  /\ disc = "sync"
  /\ cpc = "exhausted"
  /\ round = nyield
  /\ frames >= total_frames
  /\ frames - NumWorkers * BlockFrames < total_frames
  /\ \E w \in Workers : ~dones[w]
  /\ \A w \in Workers : wpc[w] = "closed"

(***************************************************************************)
(* Claims about the engine's configuration.                                *)
(***************************************************************************)
\* C24: with reset_at_each_iter, and likewise without it when the block
\* length equals max_frames_per_traj (no lag), every block starts with every
\* lane freshly reset and step_count 0, whatever the environment reported in
\* the blocks before.
C24_BlockLengthEqualsMaxFramesResetsEachBlock ==
  ( /\ epc = "step"
    /\ t = 0
    /\ ~cfg.init_with_lag
    /\ (cfg.reset_at_each_iter \/ cfg.frames_per_batch = cfg.max_frames_per_traj) ) =>
    \A l \in Lanes : step_count[l] = 0 /\ since[l] = 0

\* frames consumed before step i of the current block: the frames of the
\* blocks yielded plus the frames produced earlier in the block
ConsumedBefore(i) == dc_frames + (i - 1) * NLanes

\* C30: at each step of a block the action is random iff the frames consumed
\* so far, the frames produced earlier in the same block included, are below
\* init_random_frames.
C30_RandomIffConsumedBelowBudget ==
  epc \in {"step", "bookkeep", "yield"} =>
    \A i \in DOMAIN tensordict_out : \A l \in Lanes :
      tensordict_out[i][l].random <=> (ConsumedBefore(i) < cfg.init_random_frames)

(***************************************************************************)
(* Construction.  _MultiDataCollector.__init__ (lines 645-734) checks the  *)
(* devices and passing_devices arguments and then starts the processes     *)
(* (_run_processes, lines 751-792); SyncDataCollector.__init__ (lines      *)
(* 253-323) creates the environment, computes the block length and checks  *)
(* return_in_place against split_trajs.                                     *)
(***************************************************************************)
\* a devices / passing_devices argument: None, one device, a sequence of len
\* devices, or a value of another type
DeviceKinds == {"none", "one", "other"}

DeviceArgs ==
  {[kind |-> k, len |-> 0] : k \in DeviceKinds}
    \cup {[kind |-> "seq", len |-> n] : n \in 1..(NumWorkers + 1)}

\* lines 677-679 and 704-706: len(devices) != self.num_workers
DeviceListMismatchNever(d) == FALSE

DeviceListMismatch(d) == d.kind = "seq" /\ d.len # NumWorkers

\* lines 673-687: the branches of the devices argument
DevicesOutcome(d) ==
  IF d.kind = "other" THEN "value_error"
  ELSE IF DeviceListMismatch(d) THEN "config_error"
  ELSE "devices_ok"

\* lines 700-714: the branches of the passing_devices argument (no None branch)
PassingDevicesOutcome(d) ==
  IF d.kind \in {"other", "none"} THEN "value_error"
  ELSE IF DeviceListMismatch(d) THEN "config_error"
  ELSE "passing_ok"

\* _queue_len (lines 923-924 and 1014-1015)
QueueLen(discipline) == IF discipline = "sync" THEN NumWorkers ELSE AsyncQueueLen

\* the multi-worker collector at the entry of __init__: self.closed = True
\* (line 645), no queue, no pipe, no process
InitNewMulti ==
  /\ EngineUnused
  /\ blk_ids = <<>> /\ max_traj_idx = <<>>
  /\ margs \in [devices : DeviceArgs,
                passing_devices : DeviceArgs,
                reset_at_each_iter : BOOLEAN]
  /\ disc \in {"sync", "async"}
  /\ qcap = 0
  /\ pipe_in = [w \in Workers |-> <<>>]
  /\ pipe_out = [w \in Workers |-> <<>>]
  /\ queue_out = <<>>
  /\ wpc = [w \in Workers |-> "unborn"]
  /\ msg = [w \in Workers |-> "none"]
  /\ data_in = [w \in Workers |-> 0]
  /\ has_timed_out = [w \in Workers |-> FALSE]
  /\ j = [w \in Workers |-> 0]
  /\ nroll = [w \in Workers |-> 0]
  /\ store = [w \in Workers |-> 0]
  /\ cpc = "new"
  /\ ret = "init"
  /\ call = "none"
  /\ ck = 0
  /\ frames = 0
  /\ workers_frames = [w \in Workers |-> 0]
  /\ dones = [w \in Workers |-> FALSE]
  /\ out_tensordicts = <<>>
  /\ cur = <<>>
  /\ running = FALSE
  /\ closed = TRUE
  /\ ccalls = 0
  /\ total_frames \in TotalFramesSet
  /\ init_random_frames \in InitRandomFramesSet
  /\ split_trajs \in BOOLEAN
  /\ nyield = 0
  /\ sumyield = 0
  /\ lasty = <<>>
  /\ round = 0
  /\ joined = FALSE
  /\ seed = 0
  /\ nshut = 0
  /\ seed_arg = 0
  /\ seeds = [w \in Workers |-> <<>>]
  /\ nfault = 0

\* what the steps of the constructor leave alone
ctorRest == <<pipe_in, pipe_out, queue_out, msg, data_in, has_timed_out, j, nroll, store,
              ret, call, frames, workers_frames, dones, out_tensordicts, cur, running,
              ccalls, total_frames, init_random_frames, split_trajs, disc,
              seenVars, extVars, engVars, auxVars>>

\* lines 673-687
MultiCheckDevices ==
  /\ cpc = "new"
  /\ cpc' = DevicesOutcome(margs.devices)
  /\ UNCHANGED <<qcap, wpc, ck, closed, ctorRest>>

\* lines 700-714
MultiCheckPassingDevices ==
  /\ cpc = "devices_ok"
  /\ cpc' = PassingDevicesOutcome(margs.passing_devices)
  /\ UNCHANGED <<qcap, wpc, ck, closed, ctorRest>>

\* _run_processes, line 752: queue_out = mp.Queue(self._queue_len)
RunProcesses ==
  /\ cpc = "passing_ok"
  /\ qcap' = QueueLen(disc)
  /\ ck' = 0
  /\ cpc' = "spawn"
  /\ UNCHANGED <<wpc, closed, ctorRest>>

\* _run_processes, lines 755-790: the pipe and the process of worker i
StartProcess ==
  /\ cpc = "spawn"
  /\ ck < NumWorkers
  /\ wpc' = [wpc EXCEPT ![ck + 1] = "poll"]
  /\ ck' = ck + 1
  /\ UNCHANGED <<cpc, qcap, closed, ctorRest>>

\* _run_processes, lines 791-792: self.closed = False
RunProcessesDone ==
  /\ cpc = "spawn"
  /\ ck = NumWorkers
  /\ closed' = FALSE
  /\ ck' = 0
  /\ cpc' = "init"
  /\ UNCHANGED <<qcap, wpc, ctorRest>>

MultiConstruct ==
  \/ MultiCheckDevices \/ MultiCheckPassingDevices
  \/ RunProcesses \/ StartProcess \/ RunProcessesDone

\* the frames_per_batch argument of the collectors under construction
CtorFramesPerBatchArgSet == {0, 3}

\* lines 314-319: if self.return_in_place and self.split_trajs: raise
IncompatibleArgsNone(c) == FALSE

IncompatibleArgs(c) == c.return_in_place /\ c.split_trajs

\* SyncDataCollector at the entry of __init__: self.closed = True (line 253),
\* no environment yet, frames_per_batch not computed yet
InitNewEngine ==
  /\ AuxUnused
  /\ epc = "new"
  /\ \E c \in [frames_per_batch_arg : CtorFramesPerBatchArgSet,
                total_frames : DcTotalFramesSet,
                reset_at_each_iter : BOOLEAN,
                return_in_place : BOOLEAN,
                split_trajs : BOOLEAN] :
       cfg = [frames_per_batch_arg |-> c.frames_per_batch_arg,
              frames_per_batch |-> 0,
              max_frames_per_traj |-> -1,
              total_frames |-> c.total_frames,
              init_random_frames |-> -1,
              reset_at_each_iter |-> c.reset_at_each_iter,
              init_with_lag |-> FALSE,
              return_in_place |-> c.return_in_place,
              split_trajs |-> c.split_trajs]
  /\ t = 0
  /\ ncalls = 0
  /\ nresets = 0
  /\ step_count = [l \in Lanes |-> 0]
  /\ traj_ids = [l \in Lanes |-> NoId]
  /\ done = [l \in Lanes |-> FALSE]
  /\ has_been_done = <<>>
  /\ tensordict_out = <<>>
  /\ dc_frames = 0
  /\ dc_closed = TRUE
  /\ env_closed = TRUE
  /\ saved = <<>>
  /\ nloads = 0
  /\ dc_nshut = 0
  /\ yielded = 0
  /\ epi = [l \in Lanes |-> 0]
  /\ since = [l \in Lanes |-> 0]
  /\ hist = {}
  /\ ever_done = FALSE
  /\ term = {}
  /\ MPUnused

\* SyncDataCollector.__init__, lines 253-323: the environment is created and
\* self.closed = False (273), the block length is computed (293), the
\* environment is reset (300), then the arguments are checked (314-319)
EngineConstruct ==
  /\ epc = "new"
  /\ cfg' = [cfg EXCEPT !.frames_per_batch = FramesPerBatch(cfg.frames_per_batch_arg, NLanes)]
  /\ dc_closed' = FALSE
  /\ env_closed' = FALSE
  /\ epc' = IF IncompatibleArgs(cfg) THEN "config_error" ELSE "idle"
  /\ UNCHANGED <<t, ncalls, nresets, step_count, traj_ids, done, has_been_done,
                 tensordict_out, dc_frames, saved, nloads, dc_nshut, yielded,
                 epi, since, hist, ever_done, term>>
  /\ UNCHANGED <<mpVars, auxVars>>

\* rollout(), lines 458-481, when frames_per_batch is 0: range(0) has no
\* step and torch.stack is called on an empty list.  The stack is library
\* code: it raises, or it returns the preallocated record of zero frames.
RolloutEmpty ==
  /\ epc = "step"
  /\ cfg.frames_per_batch = 0
  /\ \E raises \in BOOLEAN : epc' = IF raises THEN "error" ELSE "yield"
  /\ UNCHANGED <<rolloutVars, iterVars>>
  /\ UNCHANGED <<mpVars, auxVars>>

InitConfig == InitNewMulti \/ InitNewEngine

NextConfig ==
  \/ MultiConstruct
  \/ Worker
  \/ AsyncIterStart \/ AsyncLoop \/ AsyncGet \/ AsyncRedispatch \/ AsyncYield \/ AsyncNext
  \/ SyncNext \/ SyncCollect \/ SyncMerge \/ ShutdownRecv
  \/ EngineConstruct
  \/ RolloutStart \/ RolloutEmpty \/ EnvStep \/ Bookkeep \/ IteratorYield \/ IteratorStop

SpecConfig == InitConfig /\ [][NextConfig]_vars

(***************************************************************************)
(* Claims about construction.                                              *)
(***************************************************************************)
\* a devices or passing_devices list whose length is not the number of workers
MismatchedLists ==
  \E a \in {margs.devices, margs.passing_devices} : a.kind = "seq" /\ a.len # NumWorkers

\* no queue, no pipe and no process exists, and shutdown() has nothing to do
NothingStarted ==
  /\ qcap = 0
  /\ ck = 0
  /\ \A w \in Workers : wpc[w] = "unborn"
  /\ closed

\* C21: a multi-worker collector built with a devices or passing_devices list
\* whose length differs from the number of workers never gets past the checks
\* of its constructor: the error is raised while no queue, pipe or worker
\* process exists, and the constructor raises a length error in no other case.
C21_DeviceListMismatchRaisesBeforeStart ==
  margs # <<>> =>
    /\ MismatchedLists =>
         /\ cpc \in {"new", "devices_ok", "config_error", "value_error"}
         /\ NothingStarted
    /\ cpc = "config_error" => (MismatchedLists /\ NothingStarted)

C21_Witness ==
  /\ margs # <<>>
  /\ cpc = "config_error"
  /\ margs.devices = [kind |-> "seq", len |-> NumWorkers]
  /\ margs.passing_devices = [kind |-> "seq", len |-> NumWorkers + 1]
  /\ NothingStarted

\* C22 as stated: a collector built with reset_at_each_iter together with
\* split_trajs raises a configuration error at construction, before any
\* rollout is produced: the single-process collector ends its constructor in
\* the error, and the multi-worker collector never starts its processes.
C22_ResetAtEachIterWithSplitTrajsRejected ==
  /\ (epc \notin {"unused", "new"} /\ cfg.reset_at_each_iter /\ cfg.split_trajs) =>
       (epc = "config_error" /\ ncalls = 0)
  /\ (margs # <<>> /\ margs.reset_at_each_iter /\ split_trajs) =>
       cpc \in {"new", "devices_ok", "passing_ok", "config_error", "value_error"}

\* C22, amended: a single-process collector built with return_in_place
\* together with split_trajs raises a configuration error at construction,
\* before any rollout is produced.
C22_ReturnInPlaceWithSplitTrajsRejected ==
  (epc \notin {"unused", "new"} /\ cfg.return_in_place /\ cfg.split_trajs) =>
    /\ epc = "config_error"
    /\ ncalls = 0
    /\ yielded = 0
    /\ tensordict_out = <<>>

C22_Witness ==
  /\ epc = "config_error"
  /\ cfg.return_in_place
  /\ cfg.split_trajs
  /\ ~cfg.reset_at_each_iter
  /\ ncalls = 0

\* C23: a collector whose block length is 0 frames is rejected at
\* construction: the constructor ends in a configuration error and no
\* rollout is ever started.
C23_ZeroLengthBlockRejected ==
  (epc \notin {"unused", "new"} /\ FramesPerBatch(cfg.frames_per_batch_arg, NLanes) = 0) =>
    (epc = "config_error" /\ ncalls = 0)

(***************************************************************************)
(* The renumbering of a round, MultiSyncDataCollector.iterator lines       *)
(* 943 and 959-966, as a function of the blocks the workers published.     *)
(* A block holds the traj_ids of its frames, step by step: rollout() sets  *)
(* arange(n) (line 455), appends a snapshot at each step (line 470) and    *)
(* _reset_if_necessary gives new ids to the lanes that ended (line 438).   *)
(***************************************************************************)
\* steps of one worker's block
MergeSteps == 2

RECURSIVE BlocksOfLen(_)
BlocksOfLen(n) ==
  IF n = 1
    THEN {<<StartTrajIds(<<>>, 0)>>}
    ELSE {Append(b, BumpTrajIds(b[n - 1], dot)) : b \in BlocksOfLen(n - 1), dot \in SUBSET Lanes}

MaxId(blk) == MaxOf({blk[i][l] : i \in DOMAIN blk, l \in Lanes})

MinId(blk) == -MaxOf({-blk[i][l] : i \in DOMAIN blk, l \in Lanes})

\* line 962: traj_ids += max_traj_idx, in place in the shared block
ShiftIds(blk, off) == [i \in DOMAIN blk |-> [l \in Lanes |-> blk[i][l] + off]]

\* line 964: max_traj_idx = traj_ids.max() + 1
NextMaxTrajIdxOfMax(blk) == MaxId(blk)

NextMaxTrajIdx(blk) == MaxId(blk) + 1

\* every worker has published a block and the coordinator has collected the
\* round: max_traj_idx = None (line 943), the loop of line 959 is at idx = 0
InitMerge ==
  /\ EngineUnused
  /\ MPUnused
  /\ margs = <<>>
  /\ blk_ids \in [Workers -> BlocksOfLen(MergeSteps)]
  /\ max_traj_idx = <<>>

mergeRest == <<engVars, chanVars, workerVars, cpc, ret, call, frames, workers_frames, dones,
               out_tensordicts, cur, running, closed, ccalls, total_frames,
               init_random_frames, split_trajs, disc, nyield, sumyield, lasty, extVars, margs>>

\* lines 959-964: one pass of the loop, for idx = ck (workers count from 1 here)
MergeRenumber ==
  /\ blk_ids # <<>>
  /\ ck < NumWorkers
  /\ LET idx == ck + 1
         shifted == IF max_traj_idx = <<>>
                      THEN blk_ids[idx]
                      ELSE ShiftIds(blk_ids[idx], max_traj_idx[1])
     IN /\ blk_ids' = [blk_ids EXCEPT ![idx] = shifted]
        /\ max_traj_idx' = <<NextMaxTrajIdx(shifted)>>
  /\ ck' = ck + 1
  /\ UNCHANGED <<round, mergeRest>>

\* lines 966-977 and the next round (lines 936-958): the batch is yielded,
\* every worker writes the traj_ids of its next rollout into its block, the
\* coordinator sets max_traj_idx = None and collects the round
MergeNextRound ==
  /\ blk_ids # <<>>
  /\ ck = NumWorkers
  /\ round < MaxWorkerRollouts
  /\ round' = round + 1
  /\ blk_ids' \in [Workers -> BlocksOfLen(MergeSteps)]
  /\ max_traj_idx' = <<>>
  /\ ck' = 0
  /\ UNCHANGED mergeRest

NextMerge == MergeRenumber \/ MergeNextRound

SpecMerge == InitMerge /\ [][NextMerge]_vars

(***************************************************************************)
(* Claims about the merge.                                                 *)
(***************************************************************************)
\* the workers the loop of line 959 has processed
Renumbered == 1..ck

C31_PendingMessageSupersedesBlock ==
  [][\A w \in Workers :
       /\ (wpc[w] = "postpoll" /\ pipe_in[w] # <<>> /\ wpc'[w] # "postpoll") =>
            /\ wpc'[w] = "poll"
            /\ j'[w] = j[w]
            /\ SelectSeq(queue_out', LAMBDA e : e.idx = w) = SelectSeq(queue_out, LAMBDA e : e.idx = w)
            /\ pipe_in'[w] # <<>> /\ Head(pipe_in'[w]) = Head(pipe_in[w])
       /\ (wpc[w] = "poll" /\ pipe_in[w] # <<>>) =>
            \/ wpc'[w] = "poll" /\ pipe_in'[w] # <<>> /\ Head(pipe_in'[w]) = Head(pipe_in[w])
                 /\ j'[w] = j[w]
            \/ wpc'[w] = "dispatch" /\ msg'[w] = Head(pipe_in[w]).tag /\ j'[w] = j[w]]_vars

C31_Witness ==
  \E w \in Workers :
    /\ wpc[w] = "dispatch"
    /\ msg[w] \notin ContinueTags
    /\ nroll[w] = 1
    /\ j[w] = 0
    /\ ~has_timed_out[w]
    /\ queue_out = <<>>

(***************************************************************************)
(* Claims about the frames of a block and the bookkeeping step.            *)
(***************************************************************************)
\* the frame of lane l at position i of the block being built or just built
Frame(i, l) == tensordict_out[i][l]

\* C32: a yielded block holds frames_per_batch frames per lane, one per
\* environment step; each frame is captured before the reset of its step: the
\* frame at which a lane's trajectory ends (done, max_frames_per_traj reached
\* or lag) still carries the step_count and traj_id of that trajectory and
\* its done flag, and the next frame is the first of the new trajectory, with
\* a new traj_id and step_count 1; a done frame is always followed by a reset.
C32_FramesCapturedBeforeReset ==
  /\ epc = "yield" => Len(tensordict_out) = cfg.frames_per_batch
  /\ epc \in {"step", "bookkeep", "yield"} =>
       \A l \in Lanes :
         /\ \A i \in DOMAIN tensordict_out :
              /\ Frame(i, l).step_count = Frame(i, l).since
              /\ Frame(i, l).step_count >= 1
         /\ \A i \in 1..(Len(tensordict_out) - 1) :
              IF Frame(i + 1, l).epi = Frame(i, l).epi
                THEN /\ ~Frame(i, l).done
                     /\ Frame(i + 1, l).traj_id = Frame(i, l).traj_id
                     /\ Frame(i + 1, l).step_count = Frame(i, l).step_count + 1
                ELSE /\ Frame(i + 1, l).epi = Frame(i, l).epi + 1
                     /\ Frame(i + 1, l).traj_id # Frame(i, l).traj_id
                     /\ Frame(i + 1, l).step_count = 1
         /\ (epc = "yield" /\ Frame(Len(tensordict_out), l).done) =>
              (epi[l] = Frame(Len(tensordict_out), l).epi + 1 /\ step_count[l] = 0)

C32_Witness ==
  /\ epc = "yield"
  /\ Len(tensordict_out) = 2
  /\ \E l \in Lanes :
       /\ Frame(1, l).done
       /\ Frame(1, l).step_count = 2
       /\ Frame(2, l).epi = Frame(1, l).epi + 1
       /\ Frame(2, l).traj_id > Frame(1, l).traj_id
       /\ Frame(2, l).step_count = 1

\* C33: the k lanes reset by one bookkeeping step receive max+1, ..., max+k
\* in lane-index order, max being the largest traj_id of the live record
\* before the step, and the other lanes keep theirs; so while a block is
\* being built no two lanes carry the same traj_id, in the live record and in
\* every captured frame, and the traj_id of a lane never decreases.
C33_ResetLanesGetNextIdsInLaneOrder ==
  /\ [][(epc = "bookkeep" /\ epc' \in {"step", "yield"}) =>
          \A l \in Lanes :
            traj_ids'[l] =
              IF l \in term'
                THEN MaxOf({traj_ids[k] : k \in Lanes}) + Cardinality({k \in term' : k <= l})
                ELSE traj_ids[l]]_vars
  /\ [](epc \in {"step", "bookkeep", "yield"} =>
          /\ \A l \in Lanes, k \in Lanes : l # k => traj_ids[l] # traj_ids[k]
          /\ \A i \in DOMAIN tensordict_out : \A l \in Lanes, k \in Lanes :
               l # k => Frame(i, l).traj_id # Frame(i, k).traj_id
          /\ \A i \in 1..(Len(tensordict_out) - 1) : \A l \in Lanes :
               Frame(i, l).traj_id <= Frame(i + 1, l).traj_id
          /\ \A l \in Lanes :
               tensordict_out # <<>> => Frame(Len(tensordict_out), l).traj_id <= traj_ids[l])

C33_Witness ==
  /\ epc = "step"
  /\ t = 1
  /\ term = Lanes
  /\ \A l \in Lanes : traj_ids[l] = NLanes - 1 + l

(***************************************************************************)
(* The engine with max_frames_per_traj not positive: rollouts, reset()     *)
(* calls and the iterator of a collector built with max_frames_per_traj in *)
(* ZeroMaxFramesSet (one positive value is kept for comparison).           *)
(***************************************************************************)
ZeroMaxFramesSet == {-1, 0, 2}

InitTerminal == InitEngineOf({-1}, ZeroMaxFramesSet)

NextTerminal ==
  \/ RolloutStart \/ EnvStep \/ Bookkeep \/ EngineReset \/ IteratorYield \/ IteratorStop

SpecTerminal == InitTerminal /\ [][NextTerminal]_vars

\* lane l is terminal at the bookkeeping step about to run
Terminal(l) ==
  done[l] \/ (cfg.max_frames_per_traj > 0 /\ step_count[l] = cfg.max_frames_per_traj)

\* C34: a bookkeeping step that completes resets a lane (step_count 0 and a
\* new traj_id) if the lane is terminal, i.e. done or, with
\* max_frames_per_traj > 0, at step_count = max_frames_per_traj; a lane that
\* is not terminal is reset only when the lag is in force
\* (init_with_lag and max_frames_per_traj > 0), so with max_frames_per_traj
\* <= 0 or lag off a lane is reset iff it is terminal; a lane that is not
\* reset keeps its step_count and traj_id.
C34_ResetIffTerminalOrLag ==
  [][(epc = "bookkeep" /\ epc' \in {"step", "yield"}) =>
       \A l \in Lanes :
         /\ step_count[l] >= 1
         /\ Terminal(l) => l \in term'
         /\ (l \in term' /\ ~Terminal(l)) =>
              (cfg.init_with_lag /\ cfg.max_frames_per_traj > 0)
         /\ IF l \in term'
              THEN step_count'[l] = 0 /\ traj_ids'[l] > traj_ids[l]
              ELSE step_count'[l] = step_count[l] /\ traj_ids'[l] = traj_ids[l]]_vars

C34_Witness ==
  /\ epc = "step"
  /\ t = 1
  /\ ~cfg.init_with_lag
  /\ cfg.max_frames_per_traj = 2
  /\ term = {1}
  /\ ~Frame(1, 1).done
  /\ Frame(1, 1).step_count = 2
  /\ step_count[1] = 0
  /\ step_count[2] = 1

\* the lanes with a terminal frame in the block being built
TerminalInBlock ==
  {l \in Lanes : \E i \in DOMAIN tensordict_out :
     Frame(i, l).done \/ Frame(i, l).step_count = cfg.max_frames_per_traj}

\* the lanes flagged in _has_been_done (None: no lane)
Flagged == IF has_been_done = <<>> THEN {} ELSE has_been_done[1]

\* C35 as stated: with the lag in force, the lanes flagged in has_been_done
\* are those that went terminal in the current rollout() call: the flags of
\* an earlier call do not carry over, so a lane that has not gone terminal in
\* the current call is not flagged and remains eligible for the random reset.
C35_FlagsAreOfTheCurrentCall ==
  (epc \in {"step", "yield"} /\ cfg.init_with_lag /\ cfg.max_frames_per_traj > 0) =>
    Flagged = TerminalInBlock

\* C35, amended: with the lag in force (only when max_frames_per_traj > 0),
\* the flag of a lane is set by the bookkeeping step at which the lane is
\* terminal and stays set for the rest of the engine's life, across rollout()
\* and reset() calls; a lane that is flagged is never selected by the random
\* early reset, and a lane that is reset without being terminal is one that
\* has never been flagged.
C35_FlagsAreStickyForTheEngine ==
  /\ [][Flagged \subseteq Flagged']_vars
  /\ [][epc = "bookkeep" =>
          Flagged' = Flagged \cup {l \in Lanes : Terminal(l)}]_vars
  /\ [][(epc = "bookkeep" /\ epc' \in {"step", "yield"}) =>
          \A l \in term' :
            ~Terminal(l) =>
              /\ l \notin Flagged'
              /\ cfg.init_with_lag /\ cfg.max_frames_per_traj > 0]_vars

C35_Witness ==
  /\ epc = "step"
  /\ ncalls = 2
  /\ cfg.init_with_lag
  /\ \E l \in Lanes, k \in Lanes :
       /\ l \in term /\ l \notin Flagged
       /\ k \in Flagged /\ k \notin TerminalInBlock /\ k \notin term

\* a bookkeeping step that raises "Got ... done envs after reset"
BookkeepRaises == epc = "bookkeep" /\ epc' = "error"

\* no lane of the live record reports done between two steps
NoDoneAfterReset ==
  epc \in {"idle", "step", "yield", "exhausted"} => \A l \in Lanes : ~done[l]

\* C36 as stated: a bookkeeping step after whose environment reset a lane
\* reports done fails, leaving step_count and traj_ids as they were before
\* the step (no new traj_id, no step_count set to 0); after a step that
\* completes no lane reports done.
C36_FailedStepLeavesCountersAlone ==
  /\ [][BookkeepRaises =>
          /\ \E l \in Lanes : done'[l]
          /\ step_count' = step_count
          /\ traj_ids' = traj_ids]_vars
  /\ []NoDoneAfterReset

\* C36, amended: a bookkeeping step after whose environment reset a lane
\* reports done fails without assigning new traj_ids; the lanes it was
\* resetting are left with step_count and traj_id 0, written by the masked
\* fill that precedes the reset, and the other lanes are left as they were;
\* after a step that completes no lane reports done.
C36_FailedStepAssignsNoNewIds ==
  /\ [][BookkeepRaises =>
          /\ \E l \in Lanes : done'[l]
          /\ \A l \in Lanes :
               IF l \in term'
                 THEN step_count'[l] = 0 /\ traj_ids'[l] = 0
                 ELSE step_count'[l] = step_count[l] /\ traj_ids'[l] = traj_ids[l]]_vars
  /\ []NoDoneAfterReset

C36_Witness ==
  /\ epc = "error"
  /\ NLanes \in term
  /\ done[NLanes]
  /\ step_count[NLanes] = 0
  /\ traj_ids[NLanes] = 0
  /\ Frame(Len(tensordict_out), NLanes).traj_id > 0
  /\ Frame(Len(tensordict_out), NLanes).step_count > 0

\* C39: with max_frames_per_traj = M > 0, every captured frame has
\* step_count in 1..M, whatever rollout() calls, reset() calls and
\* bookkeeping steps came before: between two steps the live step_count of
\* every lane is below M, since a lane is reset as soon as it equals M.
C39_StepCountWithinMaxFrames ==
  (epc # "unused" /\ cfg.max_frames_per_traj > 0) =>
    /\ \A i \in DOMAIN tensordict_out : \A l \in Lanes :
         Frame(i, l).step_count \in 1..cfg.max_frames_per_traj
    /\ \A l \in Lanes :
         /\ step_count[l] \in 0..cfg.max_frames_per_traj
         /\ epc \in {"idle", "step", "yield", "exhausted"} =>
              step_count[l] < cfg.max_frames_per_traj

C39_Witness ==
  /\ epc = "yield"
  /\ cfg.max_frames_per_traj = 3
  /\ ~cfg.reset_at_each_iter
  /\ ncalls = 2
  /\ nresets = 1
  /\ \E l \in Lanes :
       /\ Frame(1, l).step_count = 3 /\ ~Frame(1, l).done
       /\ Frame(2, l).step_count = 1

(***************************************************************************)
(* The control calls of the consumer on both collector classes: set_seed,  *)
(* reset, state_dict, load_state_dict and shutdown, in every interleaving  *)
(* with the iteration and the workers, with no message injected.           *)
(***************************************************************************)
NextCalls ==
  \/ Worker
  \/ AsyncIterStart \/ AsyncLoop \/ AsyncGet \/ AsyncRedispatch \/ AsyncYield \/ AsyncNext
  \/ SyncNext \/ SyncCollect \/ SyncMerge
  \/ ConsumerCall \/ ConsumerSetSeed \/ CallRecv \/ ResetAfterSleep
  \/ ConsumerShutdown \/ ShutdownRecv

SpecCalls == InitFault /\ [][NextCalls]_vars

(***************************************************************************)
(* Claims about the control round trips.                                   *)
(***************************************************************************)
\* control messages sent to worker w that it has not answered yet
Unanswered(w) ==
  Len(SelectSeq(pipe_in[w], LAMBDA m : m.tag \notin ContinueTags))
    + (IF wpc[w] = "dispatch" /\ msg[w] \notin ContinueTags THEN 1 ELSE 0)

\* the coordinator is waiting for a reply of worker w
Awaited(w) ==
  \/ cpc = "c_recv" /\ (IF call = "seed" THEN w = ck ELSE w >= ck)
  \/ cpc = "sd_recv" /\ w >= ck

\* the tag the coordinator expects on the pipe it is reading
ExpectedTag == IF cpc = "sd_recv" THEN "closed" ELSE ExpectedReply(call)

\* the reply that answers request m
RequestReply(m) == IF m = "close" THEN "closed" ELSE ExpectedReply(m)

C38_OneQueueEntryPerWorker ==
  /\ [](\A w \in Workers : Len(EntriesOf(w)) <= 1)
  /\ [](disc = "sync" =>
          /\ qcap = NumWorkers
          /\ \A w \in Workers : ~has_timed_out[w])
  /\ [][\A w \in Workers :
          (disc = "sync" /\ wpc[w] = "put" /\ wpc'[w] # "put") =>
            /\ Len(queue_out') = Len(queue_out) + 1
            /\ queue_out'[Len(queue_out')].idx = w]_vars

C38_Witness ==
  /\ disc = "sync"
  /\ Len(queue_out) = NumWorkers
  /\ \A w \in Workers : j[w] = 2 /\ wpc[w] = "poll" /\ ~has_timed_out[w]

(***************************************************************************)
(* Claims about reset() of the async collector.                            *)
(***************************************************************************)
\* reset() of the async collector leaves its reply loop or its sleep and
\* returns to the caller
ResetReturns ==
  /\ disc = "async"
  /\ call = "reset"
  /\ cpc \in {"c_recv", "r_sleep"}
  /\ cpc' \in {"init", "consumer"}

\* worker w still has the reset request before it
ResetPending(w) ==
  \/ \E i \in 1..Len(pipe_in[w]) : pipe_in[w][i].tag = "reset"
  \/ wpc[w] = "dispatch" /\ msg[w] = "reset"

\* C40: reset() of the async collector. It looks at the queue only when every
\* worker's "reset" reply has been received; a queue that is full then and
\* still full after the sleep makes it raise, sending nothing; otherwise it
\* sends exactly one continue/continue_random to every worker of a running
\* collector. When it returns, the queue is empty and every live worker has
\* processed its reset and waits at its poll with no block in hand, so every
\* block delivered afterwards comes from a rollout made after the reset.
C40_AsyncResetDeliversNoOldBlock ==
  /\ []((disc = "async" /\ cpc = "r_sleep") =>
          /\ call = "reset"
          /\ Len(queue_out) = qcap
          /\ \A w \in Workers : pipe_out[w] = <<>> /\ ~ResetPending(w))
  /\ [][(disc = "async" /\ cpc = "r_sleep" /\ cpc' # "r_sleep") =>
          (cpc' = "raised" /\ pipe_in' = pipe_in)]_vars
  /\ [][ResetReturns =>
          /\ queue_out' = <<>>
          /\ cur' = cur
          /\ \A w \in Workers :
               /\ pipe_out'[w] = <<>>
               /\ ~ResetPending(w)
               /\ wpc'[w] = "poll" \/ Dead(w)
               /\ pipe_in'[w] = IF running
                                  THEN Append(pipe_in[w],
                                         Msg(IF frames < init_random_frames
                                               THEN "continue_random"
                                               ELSE "continue", 0))
                                  ELSE pipe_in[w]
               /\ running => Len(pipe_in'[w]) = 1]_vars

\* a running async collector after a reset() that returned: every worker has
\* taken its continue, and one block made after the reset is in the queue
C40_Witness ==
  /\ disc = "async"
  /\ call = "reset"
  /\ cpc = "consumer"
  /\ running
  /\ nyield >= 1
  /\ \A w \in Workers : pipe_in[w] = <<>> /\ ~Dead(w)
  /\ queue_out # <<>>

====
